---- MODULE Spec2Model ----
(***************************************************************************)
(* pdf2fgu: the parsing of the spans of a PDF into PageData.data           *)
(* (PageData.__init__, parse, _parse_span) and their conversion into       *)
(* Stories of formatted text (PageData.convert and its handlers,           *)
(* src/src/fgu/pdfconverter.py), with the formatted-text objects of        *)
(* src/src/fgu/formattedtext.py and the Story of                          *)
(* src/src/fgu/encounter.py (its id counter, its start and end methods).   *)
(*                                                                         *)
(* Python objects live in heaps (sequences indexed by reference), because  *)
(* the handlers keep references (current_styledtext, current_paragraph,    *)
(* ...) into the tree they build.  A text is a sequence of one-character   *)
(* strings.                                                                *)
(***************************************************************************)
EXTENDS Integers, Sequences, FiniteSets, TLC

VARIABLES
    pd,     \* the process state: the PageData fields (parsing and conversion), the object heaps, Story.currentID
    data,   \* the elements of PageData.data the convert loop has handled so far, in order
    calls,  \* the calls made on an object on its own: of _increment_section, each with the _section_text after it; of the methods of a Story, each with its outcome
    storyobj \* a Story of encounter.py whose methods are called on their own: its flags and what its TreeBuilder was given

vars == <<pd, data, calls, storyobj>>

----------------------------------------------------------------------------
(* Bounds of the model.                                                    *)

\* the number of spans the convert loop handles in the general specification
MaxData == 3

\* the number of calls of _increment_section in SpecSection
MaxCalls == 4

\* the number of spans the convert loop handles in SpecHeading
MaxHeadingData == 4

\* the number of stories made in one process, and of spans of one document, in SpecDocs
MaxStories == 5

MaxDocData == 3

\* the number of spans the convert loop handles in SpecTable
MaxTableData == 12

\* the number of spans the convert loop handles in SpecList
MaxListData == 4

----------------------------------------------------------------------------
(* Python values.                                                          *)

\* None, for a reference (references count from 1)
None == 0

\* None, for an x co-ordinate (the x co-ordinates of the model are positive)
NoneX == -1

\* previous_data = None
NoData == [style |-> "None", origin |-> [x |-> NoneX], text |-> <<>>, location |-> [page |-> -1]]

----------------------------------------------------------------------------
(* Strings, as sequences of characters.                                    *)

StartsWith(t, p) == Len(t) >= Len(p) /\ SubSeq(t, 1, Len(p)) = p

EndsWith(t, p) == Len(t) >= Len(p) /\ SubSeq(t, Len(t) - Len(p) + 1, Len(t)) = p

\* str.strip(): leading and trailing white space removed
RECURSIVE LStrip(_)
LStrip(t) == IF t # <<>> /\ Head(t) = " " THEN LStrip(Tail(t)) ELSE t

RECURSIVE RStrip(_)
RStrip(t) == IF t # <<>> /\ t[Len(t)] = " " THEN RStrip(SubSeq(t, 1, Len(t) - 1)) ELSE t

Strip(t) == RStrip(LStrip(t))

DigitChars == <<"0", "1", "2", "3", "4", "5", "6", "7", "8", "9">>

\* the decimal digits of a natural number
RECURSIVE Decimal(_)
Decimal(n) == IF n < 10 THEN <<DigitChars[n + 1]>>
              ELSE Decimal(n \div 10) \o <<DigitChars[(n % 10) + 1]>>

\* the format specification :02 (zero-padded to at least two digits)
Format02(n) == IF n < 10 THEN <<"0">> \o Decimal(n) ELSE Decimal(n)

\* `"bold" in data.style` and `"italic" in data.style`, on the style names
BoldStyles == {"body_bold", "body_bold_italic", "box_text_bold", "box_text_bold_italic"}

ItalicStyles == {"body_italic", "body_bold_italic", "table_text_italic",
                 "box_text_italic", "box_text_bold_italic"}

\* `"body" in previous_data.style`
BodyInStyle == {"body", "body_bold", "body_italic", "body_bold_italic", "frame_body"}

\* the keys of the handlers dictionary of convert
HandledStyles == {"heading_1", "heading_2", "heading_3", "body", "body_bold", "body_italic",
                  "body_bold_italic", "box_heading", "bullet", "table_title",
                  "table_heading", "table_text", "table_text_italic"}

----------------------------------------------------------------------------
(* Section numbering.                                                      *)

section_text(sections) ==
    IF sections[2] = 0 /\ sections[3] = 0 THEN Format02(sections[1])
    ELSE IF sections[3] = 0 THEN Format02(sections[1]) \o <<".">> \o Format02(sections[2])
    ELSE Format02(sections[1]) \o <<".">> \o Format02(sections[2]) \o <<".">> \o Format02(sections[3])

\* mutant: level 1 forgets to zero the patch level
increment_section_keeps_patch(sections, section) ==
    IF section = 0 THEN <<sections[1] + 1, 0, 0>>
    ELSE IF section = 1 THEN <<sections[1], sections[2] + 1, sections[3]>>
    ELSE <<sections[1], sections[2], sections[3] + 1>>

\* mutant: level 0 forgets to zero the minor level
increment_section_keeps_minor(sections, section) ==
    IF section = 0 THEN <<sections[1] + 1, sections[2], 0>>
    ELSE IF section = 1 THEN <<sections[1], sections[2] + 1, 0>>
    ELSE <<sections[1], sections[2], sections[3] + 1>>

increment_section(sections, section) ==
    IF section = 0 THEN <<sections[1] + 1, 0, 0>>
    ELSE IF section = 1 THEN <<sections[1], sections[2] + 1, 0>>
    ELSE <<sections[1], sections[2], sections[3] + 1>>

----------------------------------------------------------------------------
(* The objects.  s is the process state; a constructor returns the state   *)
(* with the object added to its heap, the new reference being the heap's   *)
(* new length.                                                             *)

StyledTextSegment(text, bold, italic) == [text |-> text, bold |-> bold, italic |-> italic]

segment_from_data(d) == StyledTextSegment(d.text, d.style \in BoldStyles, d.style \in ItalicStyles)

\* a new segment object
NewSegment(s, seg) == [s EXCEPT !.segments = Append(@, seg)]

\* StyledText(segments): a new styled text holding the given segment references
NewStyledText(s, segrefs) == [s EXCEPT !.styledtexts = Append(@, segrefs)]

\* a new FormattedTextObject (paragraph, list, table or heading)
NewObject(s, obj) == [s EXCEPT !.objects = Append(@, obj)]

\* FormattedTableRow()
NewTableRow(s) == [s EXCEPT !.rows = Append(@, <<>>)]

FormattedParagraph(styled_text) == [type |-> "p", styled_text |-> styled_text]

FormattedList(items) == [type |-> "list", items |-> items]

FormattedTable == [type |-> "table", rows |-> <<>>]

FormattedHeading(text) == [type |-> "h", text |-> text]

\* mutant: Story.currentID is not incremented
Story_keeps_currentID(s, name) ==
    [s EXCEPT !.stories = Append(@, [id |-> s.currentID, name |-> name, text |-> <<>>])]

\* Story(name, text=FormattedText()): the id is Story.currentID, which is then incremented
Story(s, name) ==
    [s EXCEPT !.stories = Append(@, [id |-> s.currentID, name |-> name, text |-> <<>>]),
              !.currentID = s.currentID + 1]

\* Encounter.append_story(story)
append_story(s, story) == [s EXCEPT !.encounters = Append(@, story)]

\* FormattedText.append, on the text of the current story
story_text_append(s, obj) == [s EXCEPT !.stories[s.current_story].text = Append(@, obj)]

\* StyledText.append(segment)
StyledText_append(s, st, seg) == [s EXCEPT !.styledtexts[st] = Append(@, seg)]

\* StyledTextSegment.length and StyledText.length
RECURSIVE SegmentsLength(_, _)
SegmentsLength(s, segrefs) ==
    IF segrefs = <<>> THEN 0
    ELSE Len(s.segments[Head(segrefs)].text) + SegmentsLength(s, Tail(segrefs))

StyledText_length(s, st) == SegmentsLength(s, s.styledtexts[st])

\* FormattedList.length: the sum of the lengths of its items
RECURSIVE ItemsLength(_, _)
ItemsLength(s, items) ==
    IF items = <<>> THEN 0 ELSE StyledText_length(s, Head(items)) + ItemsLength(s, Tail(items))

FormattedList_length(s, lst) == ItemsLength(s, s.objects[lst].items)

\* FormattedTableRow.count
FormattedTableRow_count(s, row) == Len(s.rows[row])

\* an exception escapes the handler: convert ends there
Raise(s, exc) == [s EXCEPT !.err = exc]

----------------------------------------------------------------------------
(* PageData: the conversion state.                                         *)

\* the resolved (or unresolved) position anchors, PageData._origins
Origins == {[left_column_margin |-> 1, right_column_margin |-> 3],
            [left_column_margin |-> NoneX, right_column_margin |-> NoneX]}

\* mutant: a new PageData restarts the story ids
PageData_init_resets_ids(s, origins) ==
    [s EXCEPT !.currentID = 1,
              !.sections = <<0, 0, 0>>,
              !.encounters = <<>>,
              !.previous_data = NoData,
              !.current_heading_3 = None,
              !.current_styledtext = None,
              !.current_box = None,
              !.current_paragraph = None,
              !.current_story = None,
              !.current_bullet = None,
              !.current_bullet_x = NoneX,
              !.current_table = None,
              !.current_table_row = None,
              !.current_table_heading_count = 0,
              !.origins = origins,
              !.converting = FALSE,
              !.finished = FALSE,
              !.err = "none"]

\* the fields PageData.__init__ sets, the heaps kept
PageData_init(s, origins) ==
    [s EXCEPT !.sections = <<0, 0, 0>>,
              !.encounters = <<>>,
              !.previous_data = NoData,
              !.current_heading_3 = None,
              !.current_styledtext = None,
              !.current_box = None,
              !.current_paragraph = None,
              !.current_story = None,
              !.current_bullet = None,
              !.current_bullet_x = NoneX,
              !.current_table = None,
              !.current_table_row = None,
              !.current_table_heading_count = 0,
              !.origins = origins,
              !.converting = FALSE,
              !.finished = FALSE,
              !.err = "none"]

\* a process in which no object has been made yet
EmptyProcess ==
    [currentID |-> 1, stories |-> <<>>, objects |-> <<>>, styledtexts |-> <<>>,
     segments |-> <<>>, rows |-> <<>>,
     sections |-> <<0, 0, 0>>, encounters |-> <<>>, previous_data |-> NoData,
     current_heading_3 |-> None, current_styledtext |-> None, current_box |-> None,
     current_paragraph |-> None, current_story |-> None, current_bullet |-> None,
     current_bullet_x |-> NoneX, current_table |-> None, current_table_row |-> None,
     current_table_heading_count |-> 0,
     origins |-> [left_column_margin |-> NoneX, right_column_margin |-> NoneX],
     converting |-> FALSE, finished |-> FALSE, err |-> "none",
     pages |-> <<>>, styles |-> <<>>, style_names_from_style |-> <<>>, warnings |-> {},
     data |-> <<>>, stop_parsing |-> FALSE, page_bullshit_start |-> TRUE,
     current_page_span |-> 0, span_num |-> 0]

\* the name of the campaign, as convert receives it
CampaignName == <<"c">>

\* convert, up to its loop: the title story "00 (campaign_name)" is made and appended
convert_start(s) ==
    LET s1 == [s EXCEPT !.encounters = <<>>,
                        !.previous_data = NoData,
                        !.current_heading_3 = None,
                        !.current_styledtext = None,
                        !.current_box = None,
                        !.current_paragraph = None,
                        !.converting = TRUE]
        s2 == Story(s1, <<"0", "0", " ", "(">> \o CampaignName \o <<")">>)
        s3 == [s2 EXCEPT !.current_story = Len(s2.stories)]
    IN append_story(s3, s3.current_story)

\* mutant: the open paragraph survives the start of a story
reset_all_conversion_state_keeps_paragraph(s) ==
    [s EXCEPT !.current_styledtext = None,
              !.current_box = None,
              !.current_story = None,
              !.current_bullet = None,
              !.current_bullet_x = NoneX,
              !.current_table = None,
              !.current_table_row = None,
              !.current_table_heading_count = 0]

reset_all_conversion_state(s) ==
    [s EXCEPT !.current_styledtext = None,
              !.current_box = None,
              !.current_paragraph = None,
              !.current_story = None,
              !.current_bullet = None,
              !.current_bullet_x = NoneX,
              !.current_table = None,
              !.current_table_row = None,
              !.current_table_heading_count = 0]

\* mutant: the anchor of the list survives the reset
reset_paragraph_conversion_state_keeps_anchor(s) ==
    [s EXCEPT !.current_styledtext = None,
              !.current_box = None,
              !.current_paragraph = None,
              !.current_bullet = None,
              !.current_table = None,
              !.current_table_row = None,
              !.current_table_heading_count = 0]

\* mutant: the count of heading columns survives the reset
reset_paragraph_conversion_state_keeps_count(s) ==
    [s EXCEPT !.current_styledtext = None,
              !.current_box = None,
              !.current_paragraph = None,
              !.current_bullet = None,
              !.current_bullet_x = NoneX,
              !.current_table = None,
              !.current_table_row = None]

reset_paragraph_conversion_state(s) ==
    [s EXCEPT !.current_styledtext = None,
              !.current_box = None,
              !.current_paragraph = None,
              !.current_bullet = None,
              !.current_bullet_x = NoneX,
              !.current_table = None,
              !.current_table_row = None,
              !.current_table_heading_count = 0]

\* _new_story(name, level), the new story made the current one
new_story(s, name, level) ==
    LET s1 == [s EXCEPT !.sections = increment_section(@, level)]
        s2 == Story(s1, section_text(s1.sections) \o <<" ">> \o name)
    IN [s2 EXCEPT !.current_story = Len(s2.stories)]

\* mutant: a wrapped heading is joined to the story name with a space
convert_heading_1_spaced(s, d) ==
    IF /\ s.previous_data # NoData
       /\ s.previous_data.style = "heading_1"
       /\ d.location.page = s.previous_data.location.page
    THEN [s EXCEPT !.stories[s.current_story].name = @ \o <<" ">> \o d.text,
                   !.current_bullet = None]
    ELSE LET s1 == new_story(reset_all_conversion_state(s), d.text, 0)
         IN append_story(s1, s1.current_story)

convert_heading_1(s, d) ==
    IF /\ s.previous_data # NoData
       /\ s.previous_data.style = "heading_1"
       /\ d.location.page = s.previous_data.location.page
    THEN [s EXCEPT !.stories[s.current_story].name = @ \o d.text,
                   !.current_bullet = None]
    ELSE LET s1 == new_story(reset_all_conversion_state(s), d.text, 0)
         IN append_story(s1, s1.current_story)

\* mutant: the page of the previous heading is not compared
convert_heading_2_any_page(s, d) ==
    IF /\ s.previous_data # NoData
       /\ s.previous_data.style = "heading_2"
    THEN [s EXCEPT !.stories[s.current_story].name = @ \o d.text]
    ELSE LET s1 == new_story(reset_all_conversion_state(s), d.text, 1)
         IN append_story(s1, s1.current_story)

convert_heading_2(s, d) ==
    IF /\ s.previous_data # NoData
       /\ s.previous_data.style = "heading_2"
       /\ d.location.page = s.previous_data.location.page
    THEN [s EXCEPT !.stories[s.current_story].name = @ \o d.text]
    ELSE LET s1 == new_story(reset_all_conversion_state(s), d.text, 1)
         IN append_story(s1, s1.current_story)

\* mutant: a heading_3 that opens a heading counts at the third level
convert_heading_3_numbered(s, d) ==
    IF /\ s.previous_data # NoData
       /\ s.previous_data.style = "heading_3"
       /\ d.location.page = s.previous_data.location.page
    THEN [s EXCEPT !.objects[s.current_heading_3].text = @ \o d.text]
    ELSE LET s1 == NewObject(reset_paragraph_conversion_state(s), FormattedHeading(d.text))
             s2 == [s1 EXCEPT !.current_heading_3 = Len(s1.objects),
                              !.sections = increment_section(s1.sections, 2)]
         IN story_text_append(s2, s2.current_heading_3)

\* mutant: a heading_3 leaves the open paragraph, list and table open
convert_heading_3_keeps_state(s, d) ==
    IF /\ s.previous_data # NoData
       /\ s.previous_data.style = "heading_3"
       /\ d.location.page = s.previous_data.location.page
    THEN [s EXCEPT !.objects[s.current_heading_3].text = @ \o d.text]
    ELSE LET s1 == NewObject(s, FormattedHeading(d.text))
             s2 == [s1 EXCEPT !.current_heading_3 = Len(s1.objects)]
         IN story_text_append(s2, s2.current_heading_3)

convert_heading_3(s, d) ==
    IF /\ s.previous_data # NoData
       /\ s.previous_data.style = "heading_3"
       /\ d.location.page = s.previous_data.location.page
    THEN [s EXCEPT !.objects[s.current_heading_3].text = @ \o d.text]
    ELSE LET s1 == NewObject(reset_paragraph_conversion_state(s), FormattedHeading(d.text))
             s2 == [s1 EXCEPT !.current_heading_3 = Len(s1.objects)]
         IN story_text_append(s2, s2.current_heading_3)

\* self.current_styledtext.last_segment(): self._segments[-1]
last_segment(s, st) == s.styledtexts[st][Len(s.styledtexts[st])]

\* StyledTextSegment.append(text), on the last segment of a styled text
last_segment_append(s, st, text) == [s EXCEPT !.segments[last_segment(s, st)].text = @ \o text]

\* mutant: the new paragraph is not appended to the current story
start_paragraph_detached(s, segment) ==
    LET s1 == NewSegment(reset_paragraph_conversion_state(s), segment)
        s2 == NewStyledText(s1, <<Len(s1.segments)>>)
        s3 == [s2 EXCEPT !.current_styledtext = Len(s2.styledtexts)]
        s4 == NewObject(s3, FormattedParagraph(s3.current_styledtext))
    IN [s4 EXCEPT !.current_paragraph = Len(s4.objects)]

\* the three statements that leave a list or a paragraph: the state is reset and a
\* new paragraph holding the segment is appended to the current story
start_paragraph(s, segment) ==
    LET s1 == NewSegment(reset_paragraph_conversion_state(s), segment)
        s2 == NewStyledText(s1, <<Len(s1.segments)>>)
        s3 == [s2 EXCEPT !.current_styledtext = Len(s2.styledtexts)]
        s4 == NewObject(s3, FormattedParagraph(s3.current_styledtext))
        s5 == [s4 EXCEPT !.current_paragraph = Len(s4.objects)]
    IN story_text_append(s5, s5.current_paragraph)

\* _convert_body from "check to see if this is the first text added to a bullet" on
convert_body_add(s0, d, segment) ==
    LET s == IF s0.current_bullet # None /\ FormattedList_length(s0, s0.current_bullet) = 0
             THEN [s0 EXCEPT !.current_bullet_x = d.origin.x]
             ELSE s0
    IN  IF /\ s.previous_data # NoData
           /\ s.previous_data.style \in BodyInStyle
           /\ s.current_styledtext # None
        THEN IF s.styledtexts[s.current_styledtext] = <<>>
             THEN Raise(s, "IndexError")
             ELSE LET last == Strip(s.segments[last_segment(s, s.current_styledtext)].text)
                  IN  IF /\ EndsWith(last, <<".">>) \/ EndsWith(last, <<":">>)
                         /\ StartsWith(d.text, <<" ">>)
                      THEN start_paragraph(s, segment)
                      ELSE LET s1 == NewSegment(s, segment)
                           IN StyledText_append(s1, s1.current_styledtext, Len(s1.segments))
        ELSE IF s.current_bullet # None
        THEN IF s.current_styledtext = None
             THEN Raise(s, "AttributeError")
             ELSE LET s1 == NewSegment(s, segment)
                  IN StyledText_append(s1, s1.current_styledtext, Len(s1.segments))
        ELSE LET s1 == NewSegment(s, segment)
                 s2 == NewStyledText(s1, <<Len(s1.segments)>>)
                 s3 == [s2 EXCEPT !.current_styledtext = Len(s2.styledtexts)]
             IN  IF s3.current_paragraph = None
                 THEN LET s4 == NewObject(s3, FormattedParagraph(s3.current_styledtext))
                          s5 == [s4 EXCEPT !.current_paragraph = Len(s4.objects)]
                      IN story_text_append(s5, s5.current_paragraph)
                 ELSE \* FormattedParagraph.append: onto the paragraph's own styled text
                      StyledText_append(s3, s3.objects[s3.current_paragraph].styled_text,
                                        Len(s3.segments))

\* mutant: the right margin does not leave a list
convert_body_segment_left_only(s, d) ==
    LET segment == segment_from_data(d)
    IN  IF s.current_bullet_x # NoneX /\ s.current_bullet_x > d.origin.x
        THEN start_paragraph(s, segment)
        ELSE IF s.current_bullet_x = NoneX
        THEN convert_body_add(s, d, segment)
        ELSE IF s.origins.left_column_margin = NoneX
        THEN Raise(s, "AttributeError")
        ELSE IF d.origin.x = s.origins.left_column_margin
        THEN start_paragraph(s, segment)
        ELSE IF s.origins.right_column_margin = NoneX
        THEN Raise(s, "AttributeError")
        ELSE convert_body_add(s, d, segment)

\* _convert_body from "create a segment out of the body we get" on: the two tests
\* that leave a list
convert_body_segment(s, d) ==
    LET segment == segment_from_data(d)
    IN  IF s.current_bullet_x # NoneX /\ s.current_bullet_x > d.origin.x
        THEN start_paragraph(s, segment)
        ELSE IF s.current_bullet_x = NoneX
        THEN convert_body_add(s, d, segment)
        ELSE IF s.origins.left_column_margin = NoneX
        THEN Raise(s, "AttributeError")
        ELSE IF d.origin.x = s.origins.left_column_margin
        THEN start_paragraph(s, segment)
        ELSE IF s.origins.right_column_margin = NoneX
        THEN Raise(s, "AttributeError")
        ELSE IF d.origin.x = s.origins.right_column_margin
        THEN start_paragraph(s, segment)
        ELSE convert_body_add(s, d, segment)

convert_body(s, d) ==
    IF /\ Len(d.text) > 1
       /\ StartsWith(d.text, <<".", " ">>) \/ StartsWith(d.text, <<",", " ">>)
       /\ s.current_styledtext # None
    THEN IF s.styledtexts[s.current_styledtext] = <<>>
         THEN Raise(s, "IndexError")
         ELSE IF Len(d.text) = 2
         THEN last_segment_append(s, s.current_styledtext, d.text)
         ELSE convert_body_segment(
                  last_segment_append(s, s.current_styledtext, SubSeq(d.text, 1, 1)),
                  [d EXCEPT !.text = SubSeq(d.text, 3, Len(d.text))])
    ELSE convert_body_segment(s, d)

convert_bullet(s0, d) ==
    LET s == [s0 EXCEPT !.current_paragraph = None]
    IN  IF s.current_bullet = None
        THEN LET s1 == NewStyledText(reset_paragraph_conversion_state(s), <<>>)
                 s2 == [s1 EXCEPT !.current_styledtext = Len(s1.styledtexts)]
                 s3 == NewObject(s2, FormattedList(<<s2.current_styledtext>>))
                 s4 == [s3 EXCEPT !.current_bullet = Len(s3.objects)]
             IN story_text_append(s4, s4.current_bullet)
        ELSE LET s1 == NewStyledText(s, <<>>)
                 s2 == [s1 EXCEPT !.current_styledtext = Len(s1.styledtexts)]
             IN [s2 EXCEPT !.objects[s2.current_bullet].items = Append(@, s2.current_styledtext)]

\* the handler returns at once
convert_box_heading(s, d) == s

convert_table_title(s, d) ==
    LET s1 == NewSegment(reset_paragraph_conversion_state(s), StyledTextSegment(d.text, TRUE, FALSE))
        s2 == NewStyledText(s1, <<Len(s1.segments)>>)
        s3 == [s2 EXCEPT !.current_styledtext = Len(s2.styledtexts)]
        s4 == NewObject(s3, FormattedParagraph(s3.current_styledtext))
        s5 == story_text_append(s4, Len(s4.objects))
        s6 == NewObject(s5, FormattedTable)
        s7 == [s6 EXCEPT !.current_table = Len(s6.objects)]
    IN story_text_append(s7, s7.current_table)

\* "if self.current_table is None" and "if self.current_table_row is None", of both
\* table handlers
ensure_table(s) ==
    IF s.current_table = None
    THEN LET s1 == NewObject(s, FormattedTable)
             s2 == [s1 EXCEPT !.current_table = Len(s1.objects)]
         IN story_text_append(s2, s2.current_table)
    ELSE s

\* a new FormattedTableRow, appended to the current table and made the current row
new_table_row(s) ==
    LET s1 == NewTableRow(s)
        s2 == [s1 EXCEPT !.current_table_row = Len(s1.rows)]
    IN [s2 EXCEPT !.objects[s2.current_table].rows = Append(@, s2.current_table_row)]

ensure_table_row(s) == IF s.current_table_row = None THEN new_table_row(s) ELSE s

\* FormattedTableRow.append(StyledText([segment])), the new styled text returned as the last of the heap
row_append_cell(s, segment) ==
    LET s1 == NewSegment(s, segment)
        s2 == NewStyledText(s1, <<Len(s1.segments)>>)
    IN [s2 EXCEPT !.rows[s2.current_table_row] = Append(@, Len(s2.styledtexts))]

convert_table_heading(s, d) ==
    LET s1 == ensure_table_row(ensure_table(s))
        s2 == [s1 EXCEPT !.current_table_heading_count = @ + 1]
    IN row_append_cell(s2, StyledTextSegment(d.text, TRUE, FALSE))

\* mutant: a row is closed one column late
convert_table_text_wraps_late(s, d) ==
    IF s.current_table_heading_count = 0
    THEN s
    ELSE LET s1 == ensure_table_row(ensure_table(s))
             s2 == IF FormattedTableRow_count(s1, s1.current_table_row) > s1.current_table_heading_count
                   THEN new_table_row(s1)
                   ELSE s1
             s3 == row_append_cell(s2, StyledTextSegment(d.text, FALSE, d.style \in ItalicStyles))
         IN [s3 EXCEPT !.current_styledtext = Len(s3.styledtexts)]

convert_table_text(s, d) ==
    IF s.current_table_heading_count = 0
    THEN s
    ELSE LET s1 == ensure_table_row(ensure_table(s))
             s2 == IF FormattedTableRow_count(s1, s1.current_table_row) >= s1.current_table_heading_count
                   THEN new_table_row(s1)
                   ELSE s1
             s3 == row_append_cell(s2, StyledTextSegment(d.text, FALSE, d.style \in ItalicStyles))
         IN [s3 EXCEPT !.current_styledtext = Len(s3.styledtexts)]

\* handlers[data.style](data)
handle(s, d) ==
    CASE d.style = "heading_1" -> convert_heading_1(s, d)
      [] d.style = "heading_2" -> convert_heading_2(s, d)
      [] d.style = "heading_3" -> convert_heading_3(s, d)
      [] d.style \in {"body", "body_bold", "body_italic", "body_bold_italic"} -> convert_body(s, d)
      [] d.style = "box_heading" -> convert_box_heading(s, d)
      [] d.style = "bullet" -> convert_bullet(s, d)
      [] d.style = "table_title" -> convert_table_title(s, d)
      [] d.style = "table_heading" -> convert_table_heading(s, d)
      [] d.style \in {"table_text", "table_text_italic"} -> convert_table_text(s, d)

\* the Data object after its handler has run in the state s: _convert_body assigns
\* data.text = data.text[2:] to the object itself when it cuts a leading ". " or ", "
data_after_handler(s, d) ==
    IF /\ d.style \in {"body", "body_bold", "body_italic", "body_bold_italic"}
       /\ Len(d.text) > 2
       /\ StartsWith(d.text, <<".", " ">>) \/ StartsWith(d.text, <<",", " ">>)
       /\ s.current_styledtext # None
    THEN [d EXCEPT !.text = SubSeq(d.text, 3, Len(d.text))]
    ELSE d

\* mutant: every span becomes previous_data, handled or not
convert_step_records_every_span(s, d) ==
    IF d.style \in HandledStyles
    THEN LET s1 == handle(s, d)
         IN IF s1.err # "none" THEN s1 ELSE [s1 EXCEPT !.previous_data = data_after_handler(s, d)]
    ELSE [s EXCEPT !.previous_data = d]

\* one turn of the loop of convert: a span whose style has a handler is handled and
\* becomes previous_data (unless the handler raised, which ends convert)
convert_step(s, d) ==
    IF d.style \in HandledStyles
    THEN LET s1 == handle(s, d)
         IN IF s1.err # "none" THEN s1 ELSE [s1 EXCEPT !.previous_data = data_after_handler(s, d)]
    ELSE s

----------------------------------------------------------------------------
(* The spans.  The handlers read a span's style, text, origin.x and        *)
(* location.page; its style_data, origin.y and the rest of its location    *)
(* are left out.                                                           *)

Data(style, text, x, page) ==
    [style |-> style, origin |-> [x |-> x], text |-> text, location |-> [page |-> page]]

\* the pages after the title page (whose spans are all given a body style)
Pages == {1, 2}

\* the page of the last span handled
CurPage == IF data = <<>> THEN 1 ELSE data[Len(data)].location.page

\* PageData.data is in page order.  Only the page of a heading is ever read (by the
\* next heading), so a page turn is modelled at headings only.
NextPages(style) ==
    IF style \in {"heading_1", "heading_2", "heading_3"}
    THEN {p \in Pages : p = CurPage \/ p = CurPage + 1}
    ELSE {CurPage}

Spans(styles, texts, xs) ==
    UNION {{Data(st, t, x, p) : t \in texts, x \in xs, p \in NextPages(st)} : st \in styles}

----------------------------------------------------------------------------
(* The actions.                                                            *)

\* analyze() then PageData(...): a new PageData in a process that made no object yet
Init ==
    /\ pd \in {PageData_init(EmptyProcess, o) : o \in Origins}
    /\ data = <<>>
    /\ calls = <<>>
    /\ storyobj = None

\* convert() is called and reaches its loop
ConvertStart ==
    /\ ~pd.converting
    /\ pd' = convert_start(pd)
    /\ UNCHANGED <<data, calls, storyobj>>

\* one turn of the loop of convert, on the span d; max bounds the spans handled
Convert(d, max) ==
    /\ pd.converting
    /\ ~pd.finished
    /\ pd.err = "none"
    /\ Len(data) < max
    /\ pd' = convert_step(pd, d)
    /\ data' = Append(data, d)
    /\ UNCHANGED <<calls, storyobj>>

Heading1 == \E d \in Spans({"heading_1"}, {<<"t">>}, {1}) : Convert(d, MaxData)

Heading2 == \E d \in Spans({"heading_2"}, {<<"t">>}, {1}) : Convert(d, MaxData)

Heading3 == \E d \in Spans({"heading_3"}, {<<"t">>}, {1}) : Convert(d, MaxData)

Body == \E d \in Spans({"body", "body_bold"}, {<<"a", ".">>, <<" ", "b">>}, {1, 2}) : Convert(d, MaxData)

Bullet == \E d \in Spans({"bullet"}, {<<"*">>}, {1}) : Convert(d, MaxData)

BoxHeading == \E d \in Spans({"box_heading"}, {<<"t">>}, {1}) : Convert(d, MaxData)

TableTitle == \E d \in Spans({"table_title"}, {<<"t">>}, {1}) : Convert(d, MaxData)

TableHeading == \E d \in Spans({"table_heading"}, {<<"t">>}, {1}) : Convert(d, MaxData)

TableText == \E d \in Spans({"table_text", "table_text_italic"}, {<<"t">>}, {1}) : Convert(d, MaxData)

\* a span whose style has no handler
Unhandled == \E d \in Spans({"unknown"}, {<<"t">>}, {1}) : Convert(d, MaxData)

Next ==
    \/ ConvertStart
    \/ Heading1
    \/ Heading2
    \/ Heading3
    \/ Body
    \/ Bullet
    \/ BoxHeading
    \/ TableTitle
    \/ TableHeading
    \/ TableText
    \/ Unhandled

Spec == Init /\ [][Next]_vars

----------------------------------------------------------------------------
(* The section counter on its own: _increment_section at any level (the    *)
(* handlers only use levels 0 and 1), then _section_text.                  *)

IncrementSection ==
    \E section \in 0..2 :
        /\ Len(calls) < MaxCalls
        /\ pd' = [pd EXCEPT !.sections = increment_section(@, section)]
        /\ calls' = Append(calls, [section |-> section, text |-> section_text(pd'.sections)])
        /\ UNCHANGED <<data, storyobj>>

NextSection == IncrementSection

SpecSection == Init /\ [][NextSection]_vars

\* the levels of the calls made so far, and the labels rendered after them
CallLevels == [i \in 1..Len(calls) |-> calls[i].section]

CallTexts == [i \in 1..Len(calls) |-> calls[i].text]

\* a part of a label as the claim words it: two digits, zero-padded
TwoDigits(n) == <<DigitChars[(n \div 10) + 1], DigitChars[(n % 10) + 1]>>

\* the label as the claim words it: the parts joined by ".", the trailing zero levels left out
ExpectedLabel(sec) ==
    IF sec[3] # 0 THEN TwoDigits(sec[1]) \o <<".">> \o TwoDigits(sec[2]) \o <<".">> \o TwoDigits(sec[3])
    ELSE IF sec[2] # 0 THEN TwoDigits(sec[1]) \o <<".">> \o TwoDigits(sec[2])
    ELSE TwoDigits(sec[1])

\* C3: a call of _increment_section at level 0 adds 1 to major and zeroes minor and
\* patch; at level 1 it adds 1 to minor, zeroes patch and keeps major; at level 2 it
\* adds 1 to patch only.  The label rendered after it is the zero-padded two-digit
\* parts joined by ".", without the trailing zero levels.
C3_SectionStep ==
    calls' # calls =>
        LET c == calls'[Len(calls')]
            old == pd.sections
            new == pd'.sections
        IN  /\ c.section = 0 => new = <<old[1] + 1, 0, 0>>
            /\ c.section = 1 => new = <<old[1], old[2] + 1, 0>>
            /\ c.section = 2 => new = <<old[1], old[2], old[3] + 1>>
            /\ c.text = ExpectedLabel(new)

C3_SectionCounter == [][C3_SectionStep]_vars

\* C3 witness: the counter [1,2,1] is reached through all three levels and rendered
C3_Witness ==
    /\ CallLevels = <<0, 1, 1, 2>>
    /\ pd.sections = <<1, 2, 1>>
    /\ calls[4].text = <<"0", "1", ".", "0", "2", ".", "0", "1">>

\* C4 as stated: from [0,0,0], the level sequence [0,0,1,0] renders "01", "01.01",
\* "01.01.01", "02"
C4_Original ==
    CallLevels = <<0, 0, 1, 0>> =>
        CallTexts = << <<"0", "1">>,
                       <<"0", "1", ".", "0", "1">>,
                       <<"0", "1", ".", "0", "1", ".", "0", "1">>,
                       <<"0", "2">> >>

\* C4 amended: from [0,0,0], the level sequence [0,0,1,0] renders "01", "02", "02.01",
\* "03" in that order
C4_LevelSequence ==
    CallLevels = <<0, 0, 1, 0>> =>
        CallTexts = << <<"0", "1">>, <<"0", "2">>, <<"0", "2", ".", "0", "1">>, <<"0", "3">> >>

\* C4 witness: the four increments of the claim have been made from [0,0,0]
C4_Witness == CallLevels = <<0, 0, 1, 0>> /\ pd.sections = <<3, 0, 0>>

----------------------------------------------------------------------------
(* Headings: heading_1 spans with two texts, heading_2 and body spans      *)
(* between them.                                                           *)

H_Heading1 == \E d \in Spans({"heading_1"}, {<<"I", "n">>, <<"t", "r">>}, {1}) : Convert(d, MaxHeadingData)

H_Heading2 == \E d \in Spans({"heading_2"}, {<<"t">>}, {1}) : Convert(d, MaxHeadingData)

H_Body == \E d \in Spans({"body"}, {<<"a", ".">>}, {1}) : Convert(d, MaxHeadingData)

NextHeading ==
    \/ ConvertStart
    \/ H_Heading1
    \/ H_Heading2
    \/ H_Body

SpecHeading == Init /\ [][NextHeading]_vars

\* the spans the builder has seen: those whose style has a handler
Seen == SelectSeq(data, LAMBDA d : d.style \in HandledStyles)

\* span i of q continues span i - 1: the same style on the same page
Continues(q, i) ==
    /\ i > 1
    /\ q[i - 1].style = q[i].style
    /\ q[i - 1].location.page = q[i].location.page

\* the first span of the run of same-style, same-page spans that ends at span n of q
RECURSIVE RunStart(_, _)
RunStart(q, n) == IF Continues(q, n) THEN RunStart(q, n - 1) ELSE n

\* the texts of spans i..n of q, concatenated with no separator
RECURSIVE ConcatTexts(_, _, _)
ConcatTexts(q, i, n) == IF i > n THEN <<>> ELSE q[i].text \o ConcatTexts(q, i + 1, n)

\* the spans among the first n of q that open a story: a heading_1 or heading_2 that
\* continues nothing
StoryStarts(q, n, styles) == {i \in 1..n : q[i].style \in styles /\ ~Continues(q, i)}

\* the last story of the output
LastStory == pd.stories[pd.encounters[Len(pd.encounters)]]

\* C1: when the spans seen end with a run of k >= 1 heading_1 spans on one page, the
\* run has made exactly one story (the output holds the title story, one story per
\* earlier story start, and one for the run), and its name is the two-digit section
\* label, a space, and the texts of the run concatenated in order.
C1_HeadingWrapMerge ==
    LET n == Len(Seen)
    IN  (pd.converting /\ n >= 1 /\ Seen[n].style = "heading_1") =>
            LET start == RunStart(Seen, n)
            IN  /\ Len(pd.encounters)
                     = 1 + Cardinality(StoryStarts(Seen, start - 1, {"heading_1", "heading_2"})) + 1
                /\ pd.current_story = pd.encounters[Len(pd.encounters)]
                /\ LastStory.name
                     = TwoDigits(Cardinality(StoryStarts(Seen, n, {"heading_1"})))
                         \o <<" ">> \o ConcatTexts(Seen, start, n)

\* C1 witness: "In" and "tr" on one page at the start of a document give one story "01 Intr"
C1_Witness ==
    /\ Len(data) = 2
    /\ data[1] = Data("heading_1", <<"I", "n">>, 1, 2)
    /\ data[2] = Data("heading_1", <<"t", "r">>, 1, 2)
    /\ Len(pd.encounters) = 2
    /\ LastStory.name = <<"0", "1", " ", "I", "n", "t", "r">>

\* the heaps and the output are left alone but for the name of the current story
OnlyNameGrows(d) ==
    /\ pd'.encounters = pd.encounters
    /\ Len(pd'.stories) = Len(pd.stories)
    /\ pd'.current_story = pd.current_story
    /\ pd'.stories[pd.current_story].name = pd.stories[pd.current_story].name \o d.text
    /\ pd'.objects = pd.objects

\* a story is made, appended to the output and made the current one
StoryMade ==
    /\ Len(pd'.stories) = Len(pd.stories) + 1
    /\ pd'.encounters = Append(pd.encounters, Len(pd'.stories))
    /\ pd'.current_story = Len(pd'.stories)
    /\ \A i \in 1..Len(pd.stories) : pd'.stories[i] = pd.stories[i]

\* C2: a heading span is merged (into the name of the current story, or into the open
\* heading for heading_3) only when the previous span the builder saw has the same
\* heading style and the same page; in every other case (another style, another page,
\* no previous span) a new story (heading_1, heading_2) or a new heading (heading_3)
\* is made.
C2_HeadingStep ==
    (data' # data /\ data'[Len(data')].style \in {"heading_1", "heading_2", "heading_3"}) =>
        LET d == data'[Len(data')]
            q == Seen
            same == /\ q # <<>>
                    /\ q[Len(q)].style = d.style
                    /\ q[Len(q)].location.page = d.location.page
        IN  IF d.style = "heading_3"
            THEN IF same
                 THEN /\ Len(pd'.objects) = Len(pd.objects)
                      /\ pd'.stories = pd.stories
                      /\ pd'.current_heading_3 = pd.current_heading_3
                      /\ pd'.objects[pd.current_heading_3].text
                           = pd.objects[pd.current_heading_3].text \o d.text
                 ELSE /\ Len(pd'.objects) = Len(pd.objects) + 1
                      /\ pd'.objects[Len(pd'.objects)] = FormattedHeading(d.text)
                      /\ pd'.current_heading_3 = Len(pd'.objects)
                      /\ pd'.stories[pd.current_story].text
                           = Append(pd.stories[pd.current_story].text, Len(pd'.objects))
                      /\ Len(pd'.stories) = Len(pd.stories)
            ELSE IF same THEN OnlyNameGrows(d) ELSE StoryMade

C2_HeadingMergeOnly == [][C2_HeadingStep]_vars

\* C2 witness: a heading_2 after a heading_1 on its page, then a heading_2 on the next
\* page: three stories after the title story, none merged
C2_Witness ==
    /\ Len(data) = 3
    /\ data[1] = Data("heading_1", <<"t">>, 1, 1)
    /\ data[2] = Data("heading_2", <<"t">>, 1, 1)
    /\ data[3] = Data("heading_2", <<"t">>, 1, 2)
    /\ Len(pd.encounters) = 4
    /\ LastStory.name = <<"0", "1", ".", "0", "2", " ", "t">>

----------------------------------------------------------------------------
(* Several documents converted one after the other in one process, as the  *)
(* command line does for the files of a directory.                         *)

\* analyze() for the next file: a new PageData; the objects made so far and
\* Story.currentID stay as they are
NewDocument ==
    /\ pd.converting
    /\ Len(pd.stories) < MaxStories
    /\ pd' = PageData_init(pd, pd.origins)
    /\ data' = <<>>
    /\ UNCHANGED <<calls, storyobj>>

D_Heading1 ==
    \E d \in Spans({"heading_1"}, {<<"t">>}, {1}) : Len(pd.stories) < MaxStories /\ Convert(d, MaxDocData)

D_Heading2 ==
    \E d \in Spans({"heading_2"}, {<<"t">>}, {1}) : Len(pd.stories) < MaxStories /\ Convert(d, MaxDocData)

NextDocs ==
    \/ ConvertStart
    \/ NewDocument
    \/ D_Heading1
    \/ D_Heading2

SpecDocs == Init /\ [][NextDocs]_vars

\* the stories made in the process before the current document
EarlierStories == Len(pd.stories) - Len(pd.encounters)

\* C5: story ids are unique and strictly increasing in creation order, within one
\* document and across the documents of one process (pd.stories holds the stories in
\* the order they were made).
C5_StoryIdsIncrease ==
    \A i, j \in 1..Len(pd.stories) : i < j => pd.stories[i].id < pd.stories[j].id

\* C5 witness: a second document has made its title story and a heading story after
\* the two stories of the first document
C5_Witness ==
    /\ Len(pd.stories) = 4
    /\ Len(pd.encounters) = 2
    /\ pd.stories[2].id < pd.stories[3].id
    /\ data # <<>>

----------------------------------------------------------------------------
(* One table: an optional table_title first, then table_heading and        *)
(* table_text spans in any order.  The table handlers copy a span's text   *)
(* and never read it: each span carries its position in the stream as its  *)
(* text, so that the order of the cells shows.                             *)

OrdinalText == Decimal(Len(data) + 1)

T_TableTitle ==
    \E d \in Spans({"table_title"}, {OrdinalText}, {1}) : data = <<>> /\ Convert(d, MaxTableData)

T_TableHeading == \E d \in Spans({"table_heading"}, {OrdinalText}, {1}) : Convert(d, MaxTableData)

T_TableText == \E d \in Spans({"table_text"}, {OrdinalText}, {1}) : Convert(d, MaxTableData)

NextTable ==
    \/ ConvertStart
    \/ T_TableTitle
    \/ T_TableHeading
    \/ T_TableText

SpecTable == Init /\ [][NextTable]_vars

\* the text of a styled text: the texts of its segments in order
RECURSIVE SegmentsText(_, _)
SegmentsText(s, segrefs) ==
    IF segrefs = <<>> THEN <<>>
    ELSE s.segments[Head(segrefs)].text \o SegmentsText(s, Tail(segrefs))

RunText(st) == SegmentsText(pd, pd.styledtexts[st])

\* a cell is a heading cell: its text is bold
HeadingCell(st) == \E i \in 1..Len(pd.styledtexts[st]) : pd.segments[pd.styledtexts[st][i]].bold

\* the rows of a table, each as the texts of its cells
RowTexts(row) == [c \in 1..Len(pd.rows[row]) |-> RunText(pd.rows[row][c])]

TableTexts(table) == [r \in 1..Len(pd.objects[table].rows) |-> RowTexts(pd.objects[table].rows[r])]

\* the objects of a type in the text of the current story
StoryObjects(type) ==
    {i \in 1..Len(pd.stories[pd.current_story].text) :
        pd.objects[pd.stories[pd.current_story].text[i]].type = type}

\* the spans after the optional title
TableSpans == IF data # <<>> /\ data[1].style = "table_title" THEN Tail(data) ELSE data

\* q is h table_heading spans followed by table_text spans only
HeadingsThenTexts(q, h) ==
    /\ h >= 1
    /\ h <= Len(q)
    /\ \A i \in 1..Len(q) : q[i].style = (IF i <= h THEN "table_heading" ELSE "table_text")

\* C7: h >= 1 table_heading spans followed by n table_text spans, nothing in between,
\* give one table with one header row of the h heading cells and ceil(n/h) body rows,
\* each body row but possibly the last of exactly h cells, the cells in span order.
C7_TableWrap ==
    \A h \in 1..Len(TableSpans) :
        HeadingsThenTexts(TableSpans, h) =>
            LET q == TableSpans
                n == Len(q) - h
                bodyRows == (n + h - 1) \div h
                width(r) == IF r * h <= n THEN h ELSE n - (r - 1) * h
            IN  /\ pd.err = "none"
                /\ Cardinality(StoryObjects("table")) = 1
                /\ pd.current_table # None
                /\ TableTexts(pd.current_table)
                     = [r \in 1..(1 + bodyRows) |->
                          IF r = 1 THEN [c \in 1..h |-> q[c].text]
                          ELSE [c \in 1..width(r - 1) |-> q[h + (r - 2) * h + c].text]]
                /\ \A c \in 1..h : HeadingCell(pd.rows[pd.objects[pd.current_table].rows[1]][c])
                /\ \A r \in 2..(1 + bodyRows) :
                      \A c \in 1..Len(pd.rows[pd.objects[pd.current_table].rows[r]]) :
                          ~HeadingCell(pd.rows[pd.objects[pd.current_table].rows[r]][c])

\* C7 witness: 3 table_heading spans then 9 table_text spans: a header row and 3 body
\* rows, of 3 columns each
C7_Witness ==
    /\ Len(data) = 12
    /\ HeadingsThenTexts(data, 3)
    /\ Len(pd.objects[pd.current_table].rows) = 4
    /\ \A r \in 1..4 : Len(pd.rows[pd.objects[pd.current_table].rows[r]]) = 3
    /\ RowTexts(pd.objects[pd.current_table].rows[4]) = << <<"1", "0">>, <<"1", "1">>, <<"1", "2">> >>

\* the tables made so far
Tables == {o \in 1..Len(pd.objects) : pd.objects[o].type = "table"}

\* C8 as stated: the column count of a table is fixed by its header row: once the table
\* has a body row, the count is the number of cells of the header row, and no row but
\* the header row holds a heading cell or more cells than that.
C8_Original ==
    \A t \in Tables :
        LET rs == pd.objects[t].rows
        IN  /\ \A r \in 2..Len(rs) :
                  /\ Len(pd.rows[rs[r]]) <= Len(pd.rows[rs[1]])
                  /\ \A c \in 1..Len(pd.rows[rs[r]]) : ~HeadingCell(pd.rows[rs[r]][c])
            /\ (t = pd.current_table /\ Len(rs) >= 2) =>
                  pd.current_table_heading_count = Len(pd.rows[rs[1]])

\* a table_text span arrives before any table_heading of its table: no table is open,
\* or the open table has no row yet
BeforeAnyHeading == pd.current_table = None \/ pd.objects[pd.current_table].rows = <<>>

\* C9: a table_text or table_text_italic span that arrives before any table_heading of
\* its table makes no table, no row and no cell, and raises nothing.
C9_GuardStep ==
    (/\ data' # data
     /\ data'[Len(data')].style \in {"table_text", "table_text_italic"}
     /\ BeforeAnyHeading) =>
        /\ pd'.objects = pd.objects
        /\ pd'.rows = pd.rows
        /\ pd'.styledtexts = pd.styledtexts
        /\ pd'.segments = pd.segments
        /\ pd'.stories = pd.stories
        /\ pd'.current_table = pd.current_table
        /\ pd'.current_table_row = pd.current_table_row
        /\ pd'.err = "none"

C9_TableGuard == [][C9_GuardStep]_vars

\* C9 witness: a table_text span right after the table_title that follows a headed
\* table has been handled, and the new table has no row
C9_Witness ==
    /\ Len(data) = 3
    /\ data[1].style = "table_heading"
    /\ data[2].style = "table_title"
    /\ data[3].style = "table_text"
    /\ Cardinality(Tables) = 2
    /\ pd.objects[pd.current_table].rows = <<>>
    /\ pd.err = "none"

----------------------------------------------------------------------------
(* Lists: bullet spans and body spans at the left margin (x = 1) and       *)
(* indented (x = 2).                                                       *)

L_Bullet == \E d \in Spans({"bullet"}, {<<"*">>}, {1}) : Convert(d, MaxListData)

L_Body == \E d \in Spans({"body"}, {<<"a">>, <<"b">>}, {1, 2}) : Convert(d, MaxListData)

NextList ==
    \/ ConvertStart
    \/ L_Bullet
    \/ L_Body

SpecList == Init /\ [][NextList]_vars

\* the lists made so far
Lists == {o \in 1..Len(pd.objects) : pd.objects[o].type = "list"}

\* both margin anchors were found in the document
MarginsResolved ==
    pd.origins.left_column_margin # NoneX /\ pd.origins.right_column_margin # NoneX

\* a body span at x inside a list whose anchor is at x0 leaves the list
BulletExit(x0, x) ==
    x < x0 \/ x = pd.origins.left_column_margin \/ x = pd.origins.right_column_margin

\* the entries of every list are in the order their bullets were met (the order the
\* entries were made in)
EntriesInBulletOrder ==
    \A l \in Lists :
        \A i, j \in 1..Len(pd.objects[l].items) :
            i < j => pd.objects[l].items[i] < pd.objects[l].items[j]

\* the output after bullet, body, bullet, body: one list, the only object of the
\* story, of two non-empty entries holding the first and the second body text
TwoEntryList ==
    /\ pd.err = "none"
    /\ Len(pd.stories[pd.current_story].text) = 1
    /\ StoryObjects("list") = {1}
    /\ LET items == pd.objects[pd.stories[pd.current_story].text[1]].items
       IN  /\ Len(items) = 2
           /\ RunText(items[1]) = data[2].text
           /\ RunText(items[2]) = data[4].text
           /\ StyledText_length(pd, items[1]) > 0
           /\ StyledText_length(pd, items[2]) > 0

BulletBodyBulletBody ==
    /\ Len(data) = 4
    /\ [i \in 1..4 |-> data[i].style] = <<"bullet", "body", "bullet", "body">>

\* C10 as stated: bullet, body, bullet, body, with a second body span that is neither
\* left of the first one nor at a configured margin, give one list of two non-empty
\* entries holding the first and the second body text; and the entries of every list
\* are in the order their bullets were met.
C10_Original ==
    /\ EntriesInBulletOrder
    /\ (BulletBodyBulletBody /\ ~BulletExit(data[2].origin.x, data[4].origin.x)) => TwoEntryList

\* C10, where both margin anchors were found in the document: the statement holds
C10_WithResolvedMargins ==
    /\ EntriesInBulletOrder
    /\ (/\ BulletBodyBulletBody
        /\ MarginsResolved
        /\ ~BulletExit(data[2].origin.x, data[4].origin.x)) => TwoEntryList

\* C10, resolved margins: bullet, "a", bullet, "b", indented, give one list with the
\* entries "a", "b"
C10_ResolvedWitness ==
    /\ Len(data) = 4
    /\ [i \in 1..4 |-> data[i].style] = <<"bullet", "body", "bullet", "body">>
    /\ data[2] = Data("body", <<"a">>, 2, 1)
    /\ data[4] = Data("body", <<"b">>, 2, 1)
    /\ Cardinality(Lists) = 1
    /\ \E l \in Lists :
          /\ Len(pd.objects[l].items) = 2
          /\ RunText(pd.objects[l].items[1]) = <<"a">>
          /\ RunText(pd.objects[l].items[2]) = <<"b">>

----------------------------------------------------------------------------
(* The tree that build writes: a list writes one entry for each of its     *)
(* items of length above 0, in the order of the items.                     *)

\* mutant: build writes an entry for every item
FormattedList_build_every_item(s, lst) == s.objects[lst].items

\* FormattedList.build: the items an "li" is written for
FormattedList_build(s, lst) ==
    SelectSeq(s.objects[lst].items, LAMBDA item : StyledText_length(s, item) > 0)

\* the lists in the text of the stories of the encounter
ListsOfStories ==
    {o \in Lists : \E e \in 1..Len(pd.encounters) :
                      \E k \in 1..Len(pd.stories[pd.encounters[e]].text) :
                          pd.stories[pd.encounters[e]].text[k] = o}

\* a list object that holds an item of length 0
HoldsEmptyItem(l) ==
    \E i \in 1..Len(pd.objects[l].items) : StyledText_length(pd, pd.objects[l].items[i]) = 0

----------------------------------------------------------------------------
(* The parsing stage: PageData.__init__ finds the style of each configured *)
(* name, parse walks the spans of the pages and _parse_span drops a span   *)
(* or appends it, with its style name, to PageData.data.                   *)
(*                                                                         *)
(* pages is the sequence of the spans of the document in page, block, line *)
(* and span order, each with the number of its page.  The style string of  *)
(* a span (font, size, flags, color) is modelled by its font.              *)

\* the number of spans of a document in SpecParse
MaxSpans == 3

\* find_style_for_text returned None
NoStyle == "None"

\* config.json: the style names of the module with the text each is searched by, in
\* the order of the dict
StyleNames == <<"heading_1", "body">>

module_config == [n \in {"heading_1", "body"} |-> IF n = "heading_1" THEN <<"H">> ELSE <<"x">>]

\* config["stop_processing"]
stop_processing == {<<"S">>}

\* config["never_allow_strings"]
never_allow_strings == {<<"N">>}

\* config["patterns"]["char_override"]
char_override == [c \in {"*"} |-> "bullet"]

\* the fonts whose lower-cased name contains "italic", "bold"
ItalicFonts == {"italic", "bolditalic"}

BoldFonts == {"bold", "bolditalic"}

\* sub in t, for two strings
Contains(t, sub) == \E i \in 0..(Len(t) - Len(sub)) : SubSeq(t, i + 1, i + Len(sub)) = sub

\* a span of the PDF
Span(font, text, x, page) == [font |-> font, text |-> text, origin |-> [x |-> x], page |-> page]

\* mutant: the title page is searched too
find_style_for_text_title_too(pages, text) ==
    LET hits == {i \in 1..Len(pages) : Contains(Strip(pages[i].text), text)}
    IN  IF hits = {} THEN NoStyle
        ELSE pages[CHOOSE i \in hits : \A j \in hits : i <= j].font

find_style_for_text(pages, text) ==
    LET hits == {i \in 1..Len(pages) : pages[i].page >= 1 /\ Contains(Strip(pages[i].text), text)}
    IN  IF hits = {} THEN NoStyle
        ELSE pages[CHOOSE i \in hits : \A j \in hits : i <= j].font

\* self.style_names_from_style: filled in the order of self.styles, a later name
\* replacing an earlier one of the same style
style_names_from_style(styles) ==
    [st \in {styles[StyleNames[i]] : i \in 1..Len(StyleNames)} |->
        StyleNames[CHOOSE i \in 1..Len(StyleNames) :
                      /\ styles[StyleNames[i]] = st
                      /\ \A j \in 1..Len(StyleNames) : styles[StyleNames[j]] = st => j <= i]]

\* mutant: no warning is printed for a style that was not found
PageData_init_styles_silent(s, pages) ==
    LET styles == [n \in DOMAIN module_config |-> find_style_for_text(pages, module_config[n])]
    IN [s EXCEPT !.pages = pages,
                 !.data = <<>>,
                 !.stop_parsing = FALSE,
                 !.current_page_span = 0,
                 !.page_bullshit_start = TRUE,
                 !.span_num = 0,
                 !.styles = styles,
                 !.warnings = {},
                 !.style_names_from_style = style_names_from_style(styles)]

\* PageData.__init__: the parsing state and the styles; a style that is not found is
\* warned about and stays None
PageData_init_styles(s, pages) ==
    LET styles == [n \in DOMAIN module_config |-> find_style_for_text(pages, module_config[n])]
    IN [s EXCEPT !.pages = pages,
                 !.data = <<>>,
                 !.stop_parsing = FALSE,
                 !.current_page_span = 0,
                 !.page_bullshit_start = TRUE,
                 !.span_num = 0,
                 !.styles = styles,
                 !.warnings = {n \in DOMAIN module_config : styles[n] = NoStyle},
                 !.style_names_from_style = style_names_from_style(styles)]

\* the style name of a span of the title page
title_page_style(font) ==
    IF font \in ItalicFonts THEN "body_italic"
    ELSE IF font \in BoldFonts THEN "body_bold"
    ELSE "body"

\* the element of PageData.data made of a span: location.span is the place of the
\* span in the document
ParsedData(style, span, num) ==
    [style |-> style, style_data |-> span.font, origin |-> span.origin, text |-> span.text,
     location |-> [page |-> span.page, span |-> num]]

\* mutant: a blank span is given the name "unknown"
style_name_of_blank_unknown(s, span) ==
    IF Strip(span.text) = <<>> THEN "unknown"
    ELSE IF span.page = 0 THEN title_page_style(span.font)
    ELSE IF Len(span.text) = 1 /\ span.text[1] \in DOMAIN char_override
    THEN char_override[span.text[1]]
    ELSE IF span.font \notin DOMAIN s.style_names_from_style THEN "unknown"
    ELSE s.style_names_from_style[span.font]

\* the chain of tests that names the style of a span that is kept
style_name_of(s, span) ==
    IF span.page = 0 THEN title_page_style(span.font)
    ELSE IF Len(span.text) = 1 /\ span.text[1] \in DOMAIN char_override
    THEN char_override[span.text[1]]
    ELSE IF span.font \notin DOMAIN s.style_names_from_style THEN "unknown"
    ELSE s.style_names_from_style[span.font]

\* mutant: parse goes on after the stop text
parse_span_no_stop(s, span, num) ==
    LET skip_span == /\ s.page_bullshit_start
                     /\ span.page # 0
                     /\ \/ Len(Strip(span.text)) = 0
                        \/ span.font \notin DOMAIN s.style_names_from_style
        really_skip == \E n \in never_allow_strings : Contains(span.text, n)
    IN  IF Strip(span.text) \in stop_processing
        THEN s
        ELSE IF really_skip \/ (skip_span /\ span.page # 0)
        THEN [s EXCEPT !.current_page_span = @ + 1]
        ELSE [s EXCEPT !.data = Append(@, ParsedData(style_name_of(s, span), span, num)),
                       !.current_page_span = @ + 1]

\* mutant: a never-allowed string is not looked for on the title page
parse_span_never_after_title(s, span, num) ==
    LET skip_span == /\ s.page_bullshit_start
                     /\ span.page # 0
                     /\ \/ Len(Strip(span.text)) = 0
                        \/ span.font \notin DOMAIN s.style_names_from_style
        really_skip == span.page # 0 /\ \E n \in never_allow_strings : Contains(span.text, n)
    IN  IF Strip(span.text) \in stop_processing
        THEN [s EXCEPT !.stop_parsing = TRUE]
        ELSE IF really_skip \/ (skip_span /\ span.page # 0)
        THEN [s EXCEPT !.current_page_span = @ + 1]
        ELSE [s EXCEPT !.data = Append(@, ParsedData(style_name_of(s, span), span, num)),
                       !.current_page_span = @ + 1]

\* mutant: a span with an unknown style signature adds its signature to the styles
parse_span_learns_style(s, span, num) ==
    LET skip_span == /\ s.page_bullshit_start
                     /\ span.page # 0
                     /\ \/ Len(Strip(span.text)) = 0
                        \/ span.font \notin DOMAIN s.style_names_from_style
        really_skip == \E n \in never_allow_strings : Contains(span.text, n)
    IN  IF Strip(span.text) \in stop_processing
        THEN [s EXCEPT !.stop_parsing = TRUE]
        ELSE IF really_skip \/ (skip_span /\ span.page # 0)
        THEN [s EXCEPT !.current_page_span = @ + 1,
                       !.style_names_from_style =
                           [f \in DOMAIN @ \cup {span.font} |->
                               IF f \in DOMAIN @ THEN @[f] ELSE "unknown"]]
        ELSE [s EXCEPT !.data = Append(@, ParsedData(style_name_of(s, span), span, num)),
                       !.current_page_span = @ + 1]

\* _parse_span
parse_span(s, span, num) ==
    LET skip_span == /\ s.page_bullshit_start
                     /\ span.page # 0
                     /\ \/ Len(Strip(span.text)) = 0
                        \/ span.font \notin DOMAIN s.style_names_from_style
        really_skip == \E n \in never_allow_strings : Contains(span.text, n)
    IN  IF Strip(span.text) \in stop_processing
        THEN [s EXCEPT !.stop_parsing = TRUE]
        ELSE IF really_skip \/ (skip_span /\ span.page # 0)
        THEN [s EXCEPT !.current_page_span = @ + 1]
        ELSE [s EXCEPT !.data = Append(@, ParsedData(style_name_of(s, span), span, num)),
                       !.current_page_span = @ + 1]

\* one turn of the loops of parse: the next span is parsed
parse_step(s) ==
    [parse_span(s, s.pages[s.span_num + 1], s.span_num + 1) EXCEPT !.span_num = @ + 1]

\* parse has returned: at the stop text or after the last span
ParseReturned(s) == s.stop_parsing \/ s.span_num = Len(s.pages)

\* mutant: the current story is appended once more after the loop
convert_end_appends_story(s) == append_story([s EXCEPT !.finished = TRUE], s.current_story)

\* convert, after its loop: the campaign is made of self.encounters and written
convert_end(s) == [s EXCEPT !.finished = TRUE]

----------------------------------------------------------------------------
(* A document is parsed, then converted: PageData(file, pages), parse(),   *)
(* convert(), as the command line calls them.                              *)

\* the spans a document is made of: a heading and a body text holding the text their
\* style is searched by, a blank, the stop text and an override character, in a font
\* that names a style when its text is found, and an override character in a font that
\* never does; on the title page (0) and on the page after it
FontTexts ==
    {<<"regular", <<"H">> >>, <<"bold", <<"x">> >>, <<"bold", <<" ">> >>,
     <<"bold", <<"S">> >>, <<"bold", <<"*">> >>, <<"other", <<"*">> >>}

RawSpans == {Span(ft[1], ft[2], 2, page) : ft \in FontTexts, page \in {0, 1}}

\* the documents of MaxSpans spans, in page order
Documents ==
    {p \in [1..MaxSpans -> RawSpans] : \A i \in 1..(MaxSpans - 1) : p[i].page <= p[i + 1].page}

InitParse ==
    /\ pd \in {PageData_init_styles(PageData_init(EmptyProcess, o), p) : o \in Origins, p \in Documents}
    /\ data = <<>>
    /\ calls = <<>>
    /\ storyobj = None

\* one turn of the loops of parse
ParseSpan ==
    /\ ~pd.converting
    /\ ~ParseReturned(pd)
    /\ pd' = parse_step(pd)
    /\ UNCHANGED <<data, calls, storyobj>>

\* convert is called after parse has returned
P_ConvertStart == ParseReturned(pd) /\ ConvertStart

\* one turn of the loop of convert, on the next element of PageData.data
ConvertParsed ==
    /\ Len(data) < Len(pd.data)
    /\ Convert(pd.data[Len(data) + 1], Len(pd.data))

\* the loop of convert is over: the end of the input
ConvertEnd ==
    /\ pd.converting
    /\ ~pd.finished
    /\ pd.err = "none"
    /\ pd' = convert_end(pd)
    /\ UNCHANGED <<data, calls, storyobj>>

\* the loop of convert is over, every element of PageData.data handled
P_ConvertEnd == Len(data) = Len(pd.data) /\ ConvertEnd

NextParse ==
    \/ ParseSpan
    \/ P_ConvertStart
    \/ ConvertParsed
    \/ P_ConvertEnd

SpecParse == InitParse /\ [][NextParse]_vars

\* the places of the spans of the document whose trimmed text is a stop text
StopPlaces == {i \in 1..Len(pd.pages) : Strip(pd.pages[i].text) \in stop_processing}

FirstStop == CHOOSE i \in StopPlaces : \A j \in StopPlaces : i <= j

\* PageData.data after the first n spans of the document, parsed one after the other
\* with the styles of the document, from the parsing state of a new PageData
RECURSIVE ParsedUpTo(_)
ParsedUpTo(n) ==
    IF n = 0
    THEN [pd EXCEPT !.data = <<>>, !.stop_parsing = FALSE, !.current_page_span = 0, !.span_num = 0]
    ELSE [parse_span(ParsedUpTo(n - 1), pd.pages[n], n) EXCEPT !.span_num = n]

\* the spans of the document that got into PageData.data
Retained(i) == \E k \in 1..Len(pd.data) : pd.data[k].location.span = i

----------------------------------------------------------------------------
(* Paragraphs: body spans that end a sentence ("b."), do not ("a "), start *)
(* with a space (" c") or with ", " (", d"), after a heading, a box        *)
(* heading or a bullet.                                                    *)

\* the number of spans the convert loop handles in SpecPara
MaxParaData == 4

Q_Heading1 == \E d \in Spans({"heading_1"}, {<<"I">>}, {1}) : Convert(d, MaxParaData)

Q_Body ==
    \E d \in Spans({"body"}, {<<"a", " ">>, <<"b", ".">>, <<" ", "c">>, <<",", " ", "d">>}, {1, 2}) :
        Convert(d, MaxParaData)

Q_BoxHeading == \E d \in Spans({"box_heading"}, {<<"t">>}, {1}) : Convert(d, MaxParaData)

Q_Bullet == \E d \in Spans({"bullet"}, {<<"*">>}, {1}) : Convert(d, MaxParaData)

NextPara ==
    \/ ConvertStart
    \/ Q_Heading1
    \/ Q_Body
    \/ Q_BoxHeading
    \/ Q_Bullet

SpecPara == Init /\ [][NextPara]_vars

BodyStyles == {"body", "body_bold", "body_italic", "body_bold_italic"}

\* the text of the current story, in a state s
StoryText(s) == s.stories[s.current_story].text

\* the text of the run of paragraph p, in a state s
ParagraphText(s, p) == SegmentsText(s, s.styledtexts[s.objects[p].styled_text])

\* the text of a span begins with ". " or ", " and goes on after it
LeadingPunctuation(text) ==
    Len(text) > 1 /\ (StartsWith(text, <<".", " ">>) \/ StartsWith(text, <<",", " ">>))

\* the split condition: the trimmed text at the end of the open run (the text of its
\* last segment) ends in "." or ":" and the text of the span starts with a space
SplitCondition(d) ==
    LET run == pd.styledtexts[pd.current_styledtext]
        last == Strip(pd.segments[run[Len(run)]].text)
    IN  /\ EndsWith(last, <<".">>) \/ EndsWith(last, <<":">>)
        /\ StartsWith(d.text, <<" ">>)

\* the step handles the body span d after a body span, with a run open and no list
\* open; the text of d does not start with ". " or ", "
BodyAfterBody(d) ==
    /\ pd.converting
    /\ data' = Append(data, d)
    /\ d.style \in BodyStyles
    /\ pd.previous_data # NoData
    /\ pd.previous_data.style \in BodyStyles
    /\ pd.current_styledtext # None
    /\ pd.current_bullet = None
    /\ ~LeadingPunctuation(d.text)

\* the last object of the current story is a paragraph, which the step leaves the last
\* object, and the text of d is added at the end of its run
AccumulatedInParagraph(d) ==
    /\ pd'.err = "none"
    /\ StoryText(pd') = StoryText(pd)
    /\ StoryText(pd) # <<>>
    /\ LET p == StoryText(pd)[Len(StoryText(pd))]
       IN  /\ pd.objects[p].type = "p"
           /\ ParagraphText(pd', p) = ParagraphText(pd, p) \o d.text

\* heading_1 "I", body "a ", body "b.": one story "01 I" with one paragraph "a b."
NoSplitExample ==
    (/\ Len(data) = 3
     /\ [i \in 1..3 |-> data[i].style] = <<"heading_1", "body", "body">>
     /\ [i \in 1..3 |-> data[i].text] = << <<"I">>, <<"a", " ">>, <<"b", ".">> >>)
    => /\ Len(pd.encounters) = 2
       /\ LastStory.name = <<"0", "1", " ", "I">>
       /\ Len(LastStory.text) = 1
       /\ pd.objects[LastStory.text[1]].type = "p"
       /\ ParagraphText(pd, LastStory.text[1]) = <<"a", " ", "b", ".">>

\* C12 as stated: a body span after a body span, for which the split condition does
\* not hold, is accumulated into the paragraph: the text of the paragraph's run is
\* the concatenation of the texts; and heading_1 "I", body "a ", body "b." give one
\* story "01 I" whose body is one paragraph "a b.".
C12_Original ==
    /\ []NoSplitExample
    /\ [][\A d \in {data'[i] : i \in {Len(data')} \ {0}} :
             (BodyAfterBody(d) /\ ~SplitCondition(d)) => AccumulatedInParagraph(d)]_vars

\* C12, for the spans that follow a heading_1: the example of the claim holds
C12_AfterHeading == NoSplitExample

C12_AfterHeadingWitness ==
    /\ Len(data) = 3
    /\ [i \in 1..3 |-> data[i].style] = <<"heading_1", "body", "body">>
    /\ ParagraphText(pd, LastStory.text[1]) = <<"a", " ", "b", ".">>

\* the step closes the open paragraph and appends to the current story a new paragraph
\* whose run holds one segment, made of the span d; nothing made before changes
SplitsIntoNewParagraph(d) ==
    /\ pd'.err = "none"
    /\ Len(pd'.objects) = Len(pd.objects) + 1
    /\ SubSeq(pd'.objects, 1, Len(pd.objects)) = pd.objects
    /\ SubSeq(pd'.styledtexts, 1, Len(pd.styledtexts)) = pd.styledtexts
    /\ SubSeq(pd'.segments, 1, Len(pd.segments)) = pd.segments
    /\ StoryText(pd') = Append(StoryText(pd), Len(pd'.objects))
    /\ pd'.current_paragraph = Len(pd'.objects)
    /\ pd'.objects[pd'.current_paragraph].type = "p"
    /\ pd'.objects[pd'.current_paragraph].styled_text = pd'.current_styledtext
    /\ pd'.current_styledtext # pd.current_styledtext
    /\ Len(pd'.styledtexts[pd'.current_styledtext]) = 1
    /\ pd'.segments[pd'.styledtexts[pd'.current_styledtext][1]] = segment_from_data(d)

\* the step appends a segment made of the span d to the open run, and no object is
\* made or changed
AppendedToOpenRun(d) ==
    /\ pd'.err = "none"
    /\ pd'.objects = pd.objects
    /\ pd'.stories = pd.stories
    /\ pd'.current_styledtext = pd.current_styledtext
    /\ pd'.current_paragraph = pd.current_paragraph
    /\ Len(pd'.segments) = Len(pd.segments) + 1
    /\ SubSeq(pd'.segments, 1, Len(pd.segments)) = pd.segments
    /\ pd'.segments[Len(pd'.segments)] = segment_from_data(d)
    /\ pd'.styledtexts =
          [pd.styledtexts EXCEPT ![pd.current_styledtext] = Append(@, Len(pd'.segments))]

\* body "b.", body " c", the only spans: two paragraphs, "b." and " c"
SplitExample ==
    (/\ Len(data) = 2
     /\ [i \in 1..2 |-> data[i].style] = <<"body", "body">>
     /\ [i \in 1..2 |-> data[i].text] = << <<"b", ".">>, <<" ", "c">> >>)
    => /\ Len(StoryText(pd)) = 2
       /\ \A k \in 1..2 : pd.objects[StoryText(pd)[k]].type = "p"
       /\ ParagraphText(pd, StoryText(pd)[1]) = <<"b", ".">>
       /\ ParagraphText(pd, StoryText(pd)[2]) = <<" ", "c">>

C15_Original == pd.err = "none"

\* the two exceptions that escape _convert_body
C15_NoIndexError == pd.err # "IndexError"

C15_NoAttributeError == pd.err # "AttributeError"

----------------------------------------------------------------------------
(* The styles that are not found.                                          *)

\* the style names whose text is found nowhere after the title page
Unresolved == {n \in DOMAIN module_config : find_style_for_text(pd.pages, module_config[n]) = NoStyle}

----------------------------------------------------------------------------
(* The style name of a span and its style signature.                       *)

\* the element d of PageData.data is a single override character after the title page
OverrideCharacter(d) ==
    d.location.page # 0 /\ Len(d.text) = 1 /\ d.text[1] \in DOMAIN char_override

\* two elements of PageData.data have the same style signature and are both on the
\* title page or both after it
SameSignature(d, e) ==
    d.style_data = e.style_data /\ (d.location.page = 0) = (e.location.page = 0)

\* C17 as stated: two spans with the same style signature, both on the title page or
\* both after it, are given the same style name, whatever their text.
C17_Original ==
    \A i, j \in 1..Len(pd.data) :
        SameSignature(pd.data[i], pd.data[j]) => pd.data[i].style = pd.data[j].style

\* C17, with the override: two spans with the same style signature, both on the title
\* page or both after it, neither of them a single override character after the title
\* page, are given the same style name, whatever their text, their place and the
\* spans before them; a single override character after the title page is given the
\* style name of the character, whatever its signature.
C17_DeterminismButOverride ==
    \A i, j \in 1..Len(pd.data) :
        LET d == pd.data[i]
            e == pd.data[j]
        IN  /\ (SameSignature(d, e) /\ ~OverrideCharacter(d) /\ ~OverrideCharacter(e))
                  => d.style = e.style
            /\ OverrideCharacter(d) => d.style = char_override[d.text[1]]

\* C17: after the title page, two spans of one font, "x" and the override character:
\* a body and a bullet; and on the title page a blank and "x" of one font, both body_bold
C17_Witness ==
    \E i, j, k \in 1..Len(pd.data) :
        /\ SameSignature(pd.data[i], pd.data[j])
        /\ pd.data[i].location.page = 1
        /\ pd.data[i].style = "body"
        /\ pd.data[j].style = "bullet"
        /\ pd.data[k].location.page = 0
        /\ pd.data[k].text = <<" ">>
        /\ pd.data[k].style = "body_bold"

----------------------------------------------------------------------------
(* The stories of the encounter: headings and body spans, then the end of  *)
(* the input.                                                              *)

NextForest ==
    \/ ConvertStart
    \/ H_Heading1
    \/ H_Heading2
    \/ H_Body
    \/ ConvertEnd

SpecForest == Init /\ [][NextForest]_vars

\* C18: the encounter holds every story made, once, in the order they were made: the
\* title story "00 (campaign)" is made before any span is handled and is the first,
\* each heading_1 or heading_2 that opens a story adds one story at the end, the
\* current story is the last of the encounter, and the end of the input adds nothing.
C18_ForestOfStories ==
    /\ ~pd.converting => pd.encounters = <<>>
    /\ pd.converting =>
          /\ pd.encounters = [i \in 1..Len(pd.stories) |-> i]
          /\ pd.stories[pd.encounters[1]].name = <<"0", "0", " ", "(">> \o CampaignName \o <<")">>
          /\ pd.current_story = pd.encounters[Len(pd.encounters)]
          /\ Len(pd.encounters) =
                1 + Cardinality(StoryStarts(Seen, Len(Seen), {"heading_1", "heading_2"}))
          /\ \A i, j \in 1..Len(pd.encounters) : i < j => pd.stories[i].id < pd.stories[j].id

\* C18: heading_1, its continuation, a body span and heading_2 have been handled and
\* the input has ended: three stories
C18_Witness ==
    /\ pd.finished
    /\ Len(data) = 4
    /\ [i \in 1..4 |-> data[i].style] = <<"heading_1", "heading_1", "body", "heading_2">>
    /\ data[1].location.page = data[2].location.page
    /\ pd.encounters = <<1, 2, 3>>

----------------------------------------------------------------------------
(* The spans dropped at the start of a page.                               *)

\* span i of the document is not blank and its style signature names a style
EndsNoise(i) ==
    /\ Strip(pd.pages[i].text) # <<>>
    /\ pd.pages[i].font \in DOMAIN pd.style_names_from_style

\* span j of the document is after the title page, after a span of the same page that
\* is not blank and has a known signature; it has been parsed (no stop text up to it)
\* and holds none of the strings that are never allowed
PastNoise(j) ==
    /\ pd.pages[j].page # 0
    /\ \E i \in 1..(j - 1) : pd.pages[i].page = pd.pages[j].page /\ EndsNoise(i)
    /\ pd.span_num >= j
    /\ \A i \in StopPlaces : i > j
    /\ \A n \in never_allow_strings : ~Contains(pd.pages[j].text, n)

\* C19 as stated: after the title page, once a span of the page is not blank and has a
\* known signature, a span of the same page is no longer dropped as noise: a blank
\* span with a known signature gets into PageData.data and, when convert has ended,
\* has been handed to the loop of convert.
C19_Original ==
    \A j \in 1..Len(pd.pages) :
        (/\ PastNoise(j)
         /\ Strip(pd.pages[j].text) = <<>>
         /\ pd.pages[j].font \in DOMAIN pd.style_names_from_style)
        => /\ Retained(j)
           /\ pd.finished => \E k \in 1..Len(data) : data[k].location.span = j

\* what the code does instead: page_bullshit_start is never cleared, so after the
\* title page every blank span and every span with an unknown signature is dropped
C19_NoiseNeverEnds ==
    /\ pd.page_bullshit_start
    /\ \A j \in 1..Len(pd.pages) :
          (/\ pd.pages[j].page # 0
           /\ \/ Strip(pd.pages[j].text) = <<>>
              \/ pd.pages[j].font \notin DOMAIN pd.style_names_from_style)
          => ~Retained(j)

\* a blank span with a known signature was parsed after a body span of its page
C19_NoiseNeverEndsWitness ==
    \E j \in 1..Len(pd.pages) :
        /\ PastNoise(j)
        /\ Strip(pd.pages[j].text) = <<>>
        /\ pd.pages[j].font \in DOMAIN pd.style_names_from_style
        /\ Retained(j - 1)
        /\ pd.finished

\* the single override character at span j of the document is in PageData.data with
\* the style of the character and, when convert has ended, has been handed to the loop
\* of convert
OverrideApplied(j) ==
    /\ \E k \in 1..Len(pd.data) :
          /\ pd.data[k].location.span = j
          /\ pd.data[k].style = char_override[pd.pages[j].text[1]]
    /\ pd.finished =>
          \E k \in 1..Len(data) :
              /\ data[k].location.span = j
              /\ data[k].style = char_override[pd.pages[j].text[1]]

SingleOverrideCharacter(j) ==
    Len(pd.pages[j].text) = 1 /\ pd.pages[j].text[1] \in DOMAIN char_override

\* C20 as stated: after the title page and past the noise at the start of the page, a
\* span that is a single override character is given the style of the character,
\* whether or not its signature is known, and is handed to the loop of convert.
C20_Original ==
    \A j \in 1..Len(pd.pages) :
        (PastNoise(j) /\ SingleOverrideCharacter(j)) => OverrideApplied(j)

\* C20, for a known signature: the override character is given the style of the
\* character, not the style of its signature
C20_KnownSignature ==
    \A j \in 1..Len(pd.pages) :
        (/\ PastNoise(j)
         /\ SingleOverrideCharacter(j)
         /\ pd.pages[j].font \in DOMAIN pd.style_names_from_style)
        => OverrideApplied(j)

C20_KnownSignatureWitness ==
    \E j \in 1..Len(pd.pages) :
        /\ PastNoise(j)
        /\ SingleOverrideCharacter(j)
        /\ pd.pages[j].font \in DOMAIN pd.style_names_from_style
        /\ pd.style_names_from_style[pd.pages[j].font] = "body"
        /\ pd.finished
        /\ \E k \in 1..Len(data) : data[k].location.span = j /\ data[k].style = "bullet"

----------------------------------------------------------------------------
(* Documents with a title page in several fonts, with blanks and with a    *)
(* string that is never allowed ("N").                                     *)

\* the number of spans of a document in SpecTitle
MaxTitleSpans == 3

\* the body text in four fonts, a blank, the stop text, and two texts that hold the
\* string that is never allowed
TitleFontTexts ==
    {<<"regular", <<"x">> >>, <<"italic", <<"x">> >>, <<"bold", <<"x">> >>,
     <<"bolditalic", <<"x">> >>, <<"bold", <<" ">> >>, <<"bold", <<"S">> >>,
     <<"regular", <<"N">> >>, <<"bold", <<"x", "N">> >>}

TitleSpans == {Span(ft[1], ft[2], 2, page) : ft \in TitleFontTexts, page \in {0, 1}}

TitleDocuments ==
    {p \in [1..MaxTitleSpans -> TitleSpans] :
        \A i \in 1..(MaxTitleSpans - 1) : p[i].page <= p[i + 1].page}

InitTitle ==
    /\ pd \in {PageData_init_styles(PageData_init(EmptyProcess, o), p) :
                  o \in {[left_column_margin |-> 1, right_column_margin |-> 3]},
                  p \in TitleDocuments}
    /\ data = <<>>
    /\ calls = <<>>
    /\ storyobj = None

SpecTitle == InitTitle /\ [][NextParse]_vars

\* the style the title page is said to give a font: by "italic" and "bold" in its name
SaidTitleStyle(font) ==
    IF font \in ItalicFonts /\ font \notin BoldFonts THEN "body_italic"
    ELSE IF font \in BoldFonts /\ font \notin ItalicFonts THEN "body_bold"
    ELSE IF font \in BoldFonts /\ font \in ItalicFonts THEN "body_bold_italic"
    ELSE "body"

\* C21 as stated: a span of the title page is given its style by the name of its font
\* only, whatever the styles of the document: body_italic for "italic" without "bold",
\* body_bold for "bold" without "italic", body_bold_italic for both, body otherwise.
C21_Original ==
    \A k \in 1..Len(pd.data) :
        pd.data[k].location.page = 0 => pd.data[k].style = SaidTitleStyle(pd.data[k].style_data)

\* what the code does: "italic" is looked for first, so a font with both is body_italic
C21_ItalicFirst ==
    \A k \in 1..Len(pd.data) :
        pd.data[k].location.page = 0 =>
            pd.data[k].style = IF pd.data[k].style_data \in ItalicFonts THEN "body_italic"
                               ELSE IF pd.data[k].style_data \in BoldFonts THEN "body_bold"
                               ELSE "body"

C21_ItalicFirstWitness ==
    \E k \in 1..Len(pd.data) :
        /\ pd.data[k].location.page = 0
        /\ pd.data[k].style_data = "bolditalic"
        /\ pd.data[k].style = "body_italic"
        /\ pd.finished

\* span j of the document holds a string that is never allowed
NeverAllowed(j) == \E n \in never_allow_strings : Contains(pd.pages[j].text, n)

\* span j of the document has been parsed, no stop text before it or at it
Parsed(j) == pd.span_num >= j /\ \A i \in StopPlaces : i > j

\* C22: a span whose text holds a string that is never allowed is never in
\* PageData.data and never handed to the loop of convert, on the title page as on
\* the others and whatever its font; and on the title page every other span that is
\* parsed (the stop text not met) is kept.
C22_NeverAllow ==
    \A j \in 1..Len(pd.pages) :
        /\ NeverAllowed(j) =>
              /\ ~Retained(j)
              /\ \A k \in 1..Len(data) : data[k].location.span # j
        /\ (pd.pages[j].page = 0 /\ Parsed(j) /\ ~NeverAllowed(j)) => Retained(j)

\* C22: on the title page a never-allowed span in a font that names a style, then a
\* blank; both parsed, the blank kept and handled, the other not
C22_Witness ==
    /\ pd.finished
    /\ pd.pages[1] = Span("bold", <<"x", "N">>, 2, 0)
    /\ pd.pages[2] = Span("bold", <<" ">>, 2, 0)
    /\ pd.pages[3] = Span("bold", <<"x">>, 2, 1)
    /\ [k \in 1..Len(data) |-> data[k].location.span] = <<2, 3>>

\* C23 as stated: of two spans with the same text, one right after the other, the
\* second is dropped: PageData.data, which the loop of convert handles, never holds
\* two neighbours with the same text.
C23_Original ==
    /\ \A k \in 1..(Len(pd.data) - 1) : pd.data[k].text # pd.data[k + 1].text
    /\ \A k \in 1..(Len(data) - 1) : data[k].text # data[k + 1].text

\* what the code does: _parse_span compares no span with the one before it, so the
\* second of two equal spans is kept whenever the first is
C23_SecondKept ==
    \A j \in 2..Len(pd.pages) :
        (/\ pd.pages[j] = pd.pages[j - 1]
         /\ pd.span_num >= j
         /\ Retained(j - 1))
        => Retained(j)

C23_SecondKeptWitness ==
    /\ pd.finished
    /\ Len(data) >= 2
    /\ data[1].text = data[2].text
    /\ data[1].location.span + 1 = data[2].location.span

\* span i of the document is after the title page and its trimmed text holds the text
\* the style n is searched by
Matches(i, n) == pd.pages[i].page # 0 /\ Contains(Strip(pd.pages[i].text), module_config[n])

\* C24: the style of each configured name is the style signature of the first span, in
\* the order of the document and the title page left out, whose trimmed text holds
\* the text the name is searched by; a span of the title page never gives a style, and
\* a name with no such span stays unresolved.
C24_StyleResolver ==
    \A n \in DOMAIN module_config :
        /\ pd.styles[n] # NoStyle =>
              \E i \in 1..Len(pd.pages) :
                  /\ Matches(i, n)
                  /\ pd.styles[n] = pd.pages[i].font
                  /\ \A j \in 1..(i - 1) : ~Matches(j, n)
        /\ pd.styles[n] = NoStyle => \A i \in 1..Len(pd.pages) : ~Matches(i, n)

\* C24: "x" is on the title page in one font and after it in two others: body has the
\* font of the first span after the title page; and heading_1 is unresolved
C24_Witness ==
    /\ pd.pages = <<Span("italic", <<"x">>, 2, 0), Span("bold", <<"x">>, 2, 1),
                    Span("regular", <<"x">>, 2, 1)>>
    /\ pd.styles["body"] = "bold"
    /\ pd.styles["heading_1"] = NoStyle
    /\ pd.span_num = Len(pd.pages)

\* C25: the styles and the dict from style signature to style name are made once, by
\* PageData.__init__: no step of parse and no step of convert adds, removes or
\* changes an entry.
C25_StyleTableReadOnly ==
    [][pd'.styles = pd.styles /\ pd'.style_names_from_style = pd.style_names_from_style]_vars

\* C25: spans with a known and with an unknown style signature have been parsed and
\* convert has ended, the dict still that of the styles found
C25_Witness ==
    /\ pd.finished
    /\ Len(data) >= 1
    /\ \E j \in 1..Len(pd.pages) :
          pd.pages[j].page # 0 /\ pd.pages[j].font \notin DOMAIN pd.style_names_from_style
    /\ pd.style_names_from_style = style_names_from_style(pd.styles)
    /\ DOMAIN pd.style_names_from_style = {"bold", NoStyle}

----------------------------------------------------------------------------
(* The spans whose handler does nothing.                                   *)

\* the segments of a styled text, by value
RunValue(s, st) == [k \in 1..Len(s.styledtexts[st]) |-> s.segments[s.styledtexts[st][k]]]

\* an object of a story's text, by value
ObjectValue(s, o) ==
    LET obj == s.objects[o]
    IN  CASE obj.type = "p" -> [type |-> "p", text |-> <<RunValue(s, obj.styled_text)>>]
          [] obj.type = "list" ->
                [type |-> "list", text |-> [k \in 1..Len(obj.items) |-> RunValue(s, obj.items[k])]]
          [] obj.type = "table" ->
                [type |-> "table",
                 text |-> [r \in 1..Len(obj.rows) |->
                              [c \in 1..Len(s.rows[obj.rows[r]]) |-> RunValue(s, s.rows[obj.rows[r]][c])]]]
          [] obj.type = "h" -> [type |-> "h", text |-> obj.text]

\* the output of convert, by value: the stories of the encounter in order, each with
\* its name and the objects of its text
ForestValue(s) ==
    [i \in 1..Len(s.encounters) |->
        LET story == s.stories[s.encounters[i]]
        IN  [name |-> story.name,
             text |-> [k \in 1..Len(story.text) |-> ObjectValue(s, story.text[k])]]]

\* the loop of convert over the spans q, from the state s: an exception ends it
RECURSIVE ConvertAll(_, _)
ConvertAll(s, q) ==
    IF q = <<>> \/ s.err # "none" THEN s ELSE ConvertAll(convert_step(s, Head(q)), Tail(q))

\* convert of a new PageData with the origins of pd, over the spans q
ConvertOf(q) == ConvertAll(convert_start(PageData_init(EmptyProcess, pd.origins)), q)

\* the spans handled so far, those of style box_heading left out
WithoutBoxHeadings == SelectSeq(data, LAMBDA d : d.style # "box_heading")

\* C26 as stated: a box_heading span changes nothing in the builder: the output for
\* the spans handled so far is the output for the same spans with every box_heading
\* span removed.
C26_Original == pd.converting => ForestValue(pd) = ForestValue(ConvertOf(WithoutBoxHeadings))

\* the handler itself makes and changes no object: a box_heading step leaves every
\* field but previous_data as it was
C26_OnlyPreviousData ==
    [][\A d \in {data'[i] : i \in {Len(data')} \ {0}} :
          d.style = "box_heading" => pd' = [pd EXCEPT !.previous_data = d]]_vars

\* the span is a table_text span that the test of _convert_table_text drops
DroppedTableText(d) ==
    d.style \in {"table_text", "table_text_italic"} /\ pd.current_table_heading_count = 0

\* heading_1, a dropped table_text, heading_1 on the same page: one story, named by
\* both texts
MergeOverDropped ==
    (/\ Len(data) = 3
     /\ [i \in 1..3 |-> data[i].style] = <<"heading_1", "table_text", "heading_1">>
     /\ data[1].location.page = data[3].location.page)
    => /\ Len(pd.encounters) = 2
       /\ LastStory.name = <<"0", "1", " ">> \o data[1].text \o data[3].text

\* C27 as stated: a table_text span dropped by the test on the heading count leaves
\* the whole state of the builder as it was, previous_data included, so that the
\* spans after it are handled as if it had not been there: heading_1, dropped
\* table_text, heading_1 on one page make one story.
C27_Original ==
    /\ []MergeOverDropped
    /\ [][\A d \in {data'[i] : i \in {Len(data')} \ {0}} : DroppedTableText(d) => pd' = pd]_vars

\* the dropped span makes and changes no object: every field but previous_data is left
C27_OnlyPreviousData ==
    [][\A d \in {data'[i] : i \in {Len(data')} \ {0}} :
          DroppedTableText(d) => pd' = [pd EXCEPT !.previous_data = d]]_vars

----------------------------------------------------------------------------
(* Leaving a list: bullets and body spans left of the entry (x = 1, the    *)
(* left margin), in the entry (x = 2) and at the right margin (x = 3),     *)
(* with the texts "a", ", " and ", d".                                     *)

\* the number of spans the convert loop handles in SpecExit
MaxExitData == 4

E_Bullet == \E d \in Spans({"bullet"}, {<<"*">>}, {1}) : Convert(d, MaxExitData)

E_Body ==
    \E d \in Spans({"body"}, {<<"a">>, <<",", " ">>, <<",", " ", "d">>}, {1, 2, 3}) :
        Convert(d, MaxExitData)

NextExit ==
    \/ ConvertStart
    \/ E_Bullet
    \/ E_Body

SpecExit == Init /\ [][NextExit]_vars

\* the step handles the body span d, inside a list whose anchor is recorded; the span
\* reaches the tests that leave a list as it is (the text of a span that starts with
\* ". " or ", " is cut before, when a run is open)
BodyInsideList(d) ==
    /\ pd.converting
    /\ data' = Append(data, d)
    /\ d.style \in BodyStyles
    /\ pd.current_bullet # None
    /\ pd.current_bullet_x # NoneX
    /\ ~(LeadingPunctuation(d.text) /\ pd.current_styledtext # None)

\* x is left of the anchor, or is the x of the left or of the right margin found in the
\* document
LeavesList(x) ==
    \/ x < pd.current_bullet_x
    \/ pd.origins.left_column_margin # NoneX /\ x = pd.origins.left_column_margin
    \/ /\ pd.origins.left_column_margin # NoneX
       /\ pd.origins.right_column_margin # NoneX
       /\ x = pd.origins.right_column_margin

\* the list, its anchor and the table state are cleared
ListStateClosed ==
    /\ pd'.current_bullet = None
    /\ pd'.current_bullet_x = NoneX
    /\ pd'.current_box = None
    /\ pd'.current_table = None
    /\ pd'.current_table_row = None
    /\ pd'.current_table_heading_count = 0

FirstBodyOfEntry(d) ==
    /\ pd.converting
    /\ data' = Append(data, d)
    /\ d.style \in BodyStyles
    /\ pd.current_bullet # None
    /\ pd.current_styledtext # None
    /\ pd.styledtexts[pd.current_styledtext] = <<>>
    /\ pd'.err = "none"
    /\ pd'.current_bullet = pd.current_bullet
    /\ Len(pd'.styledtexts[pd.current_styledtext]) = 1

\* C29 as stated: for every entry of a list, the first and each later one, the x of
\* the first body span added to the still empty entry becomes the anchor, in place
\* of the anchor of the entry before.
C29_Original ==
    [][\A d \in {data'[i] : i \in {Len(data')} \ {0}} :
          FirstBodyOfEntry(d) => pd'.current_bullet_x = d.origin.x]_vars

\* what the code does: the anchor is taken from the first body span of the list, and
\* kept for the later entries
C29_FirstOfList ==
    [][\A d \in {data'[i] : i \in {Len(data')} \ {0}} :
          FirstBodyOfEntry(d) =>
              pd'.current_bullet_x = IF FormattedList_length(pd, pd.current_bullet) = 0
                                     THEN d.origin.x
                                     ELSE pd.current_bullet_x]_vars

----------------------------------------------------------------------------
(* A span that starts with ". " or ", ".                                   *)

\* the step handles the body span d, whose text starts with ". " or ", ", with a run
\* open
PunctuationWithOpenRun(d) ==
    /\ pd.converting
    /\ data' = Append(data, d)
    /\ d.style \in BodyStyles
    /\ LeadingPunctuation(d.text)
    /\ pd.current_styledtext # None

\* the state with text added at the end of the text of the last segment of the open run
Spliced(text) ==
    LET run == pd.styledtexts[pd.current_styledtext]
    IN [pd EXCEPT !.segments[run[Len(run)]].text = @ \o text]

\* the punctuation goes to the last segment of the open run and no segment is made
\* for it: a span of just the two characters adds both and changes nothing else (it
\* becomes the previous span); of a longer one the first character is added, and what
\* is left after the first two is handled as a body span from the tests that leave a
\* list on
SplicedOntoLastSegment(d) ==
    /\ pd'.err # "IndexError"
    /\ pd.styledtexts[pd.current_styledtext] # <<>>
    /\ IF Len(d.text) = 2
       THEN pd' = [Spliced(d.text) EXCEPT !.previous_data = d]
       ELSE LET rest == [d EXCEPT !.text = SubSeq(d.text, 3, Len(d.text))]
                s1 == convert_body_segment(Spliced(<<d.text[1]>>), rest)
            IN  /\ Len(pd'.segments) >= Len(pd.segments)
                /\ pd' = IF s1.err # "none" THEN s1 ELSE [s1 EXCEPT !.previous_data = rest]

\* C30 as stated: when a run is open and the text of a body span starts with ". " or
\* ", ", the punctuation is added to the text of the last segment of the run: both
\* characters and nothing else when the text is just these two, else the first
\* character, the first two being removed and the rest handled as a body span.  With
\* no run open the span is handled as it is.
C30_Original ==
    [][\A d \in {data'[i] : i \in {Len(data')} \ {0}} :
          /\ PunctuationWithOpenRun(d) => SplicedOntoLastSegment(d)
          /\ (pd.converting /\ data' = Append(data, d) /\ d.style \in BodyStyles
                 /\ pd.current_styledtext = None) =>
                LET s1 == convert_body_segment(pd, d)
                IN pd' = IF s1.err # "none" THEN s1 ELSE [s1 EXCEPT !.previous_data = d]]_vars

\* C30, when the open run holds a segment: the statement holds
C30_WithLastSegment ==
    [][\A d \in {data'[i] : i \in {Len(data')} \ {0}} :
          (PunctuationWithOpenRun(d) /\ pd.styledtexts[pd.current_styledtext] # <<>>)
              => SplicedOntoLastSegment(d)]_vars

\* body "a", body ", d", body ", ": one paragraph whose run holds "a," and "d, "
C30_WithLastSegmentWitness ==
    /\ Len(data) = 3
    /\ [i \in 1..3 |-> data[i].text] = << <<"a">>, <<",", " ", "d">>, <<",", " ">> >>
    /\ \A i \in 1..3 : data[i].origin.x = 2
    /\ pd.err = "none"
    /\ Len(StoryText(pd)) = 1
    /\ Len(pd.segments) = 2
    /\ pd.segments[1].text = <<"a", ",">>
    /\ pd.segments[2].text = <<"d", ",", " ">>

----------------------------------------------------------------------------
(* The segments of a run.                                                  *)

\* two segments have the same style
SameStyle(a, b) == a.bold = b.bold /\ a.italic = b.italic

\* C31 as stated: in every run of the tree no two adjacent segments have the same
\* {bold, italic}: text appended with the style of the last segment of the run
\* extends that segment, and only a change of style starts a new segment.
C31_Original ==
    \A st \in 1..Len(pd.styledtexts) :
        \A k \in 1..(Len(pd.styledtexts[st]) - 1) :
            ~SameStyle(pd.segments[pd.styledtexts[st][k]], pd.segments[pd.styledtexts[st][k + 1]])

\* what the code does: a body span added to the open run is a segment of its own,
\* whatever the style of the segment before it
C31_SegmentPerSpan ==
    [][\A d \in {data'[i] : i \in {Len(data')} \ {0}} :
          (/\ d.style \in BodyStyles
           /\ ~LeadingPunctuation(d.text)
           /\ pd.current_styledtext # None
           /\ pd'.current_styledtext = pd.current_styledtext
           /\ pd'.err = "none")
          => /\ Len(pd'.styledtexts[pd.current_styledtext]) = Len(pd.styledtexts[pd.current_styledtext]) + 1
             /\ pd'.segments[Len(pd'.segments)] = segment_from_data(d)]_vars

----------------------------------------------------------------------------
(* Headings of the third level.                                            *)

\* the step handles the span d
Handles(d) == pd.converting /\ data' = Append(data, d)

\* the heading_3 span d continues the heading_3 span before it
H3Continues(d) ==
    /\ d.style = "heading_3"
    /\ pd.previous_data # NoData
    /\ pd.previous_data.style = "heading_3"
    /\ d.location.page = pd.previous_data.location.page

\* the headings made so far
Headings(s) == {o \in 1..Len(s.objects) : s.objects[o].type = "h"}

\* a heading_3 that continues nothing closes the paragraph, list and table state and
\* appends a new heading to the text of the current story; no story is made and the
\* section counter is left
H3Opens(d) ==
    /\ ListStateClosed
    /\ pd'.current_paragraph = None
    /\ pd'.current_styledtext = None
    /\ pd'.objects = Append(pd.objects, FormattedHeading(d.text))
    /\ pd'.current_heading_3 = Len(pd'.objects)
    /\ pd'.current_story = pd.current_story
    /\ StoryText(pd') = Append(StoryText(pd), pd'.current_heading_3)
    /\ Len(pd'.stories) = Len(pd.stories)
    /\ pd'.encounters = pd.encounters
    /\ pd'.currentID = pd.currentID
    /\ pd'.sections = pd.sections

\* the text of a heading changes only when a heading_3 span continues it
H3GrowsByContinuation(d) ==
    \A o \in Headings(pd) :
        pd'.objects[o] # pd.objects[o] =>
            /\ H3Continues(d)
            /\ o = pd.current_heading_3
            /\ pd'.objects[o] = FormattedHeading(pd.objects[o].text \o d.text)

\* C32: a heading_3 span that continues nothing closes the open paragraph, list and
\* table state and appends a new heading to the text of the current story, making no
\* story and leaving the section counter; the text of a heading grows only by
\* heading_3 spans that continue it; and a body span after a heading_3 span starts a
\* new paragraph, placed right after the heading.
C32_Heading3 ==
    [][\A d \in {data'[i] : i \in {Len(data')} \ {0}} :
          Handles(d) =>
              /\ (d.style = "heading_3" /\ ~H3Continues(d)) => H3Opens(d)
              /\ H3GrowsByContinuation(d)
              /\ (d.style \in BodyStyles /\ pd.previous_data # NoData
                     /\ pd.previous_data.style = "heading_3") =>
                    /\ StoryText(pd)[Len(StoryText(pd))] = pd.current_heading_3
                    /\ SplitsIntoNewParagraph(d)]_vars

\* C32: heading_3, a heading_3 that continues it and a body span: the story holds the
\* heading "tt" and, after it, a paragraph
C32_Witness ==
    /\ Len(data) = 3
    /\ [i \in 1..3 |-> data[i].style] = <<"heading_3", "heading_3", "body">>
    /\ data[1].location.page = data[2].location.page
    /\ Len(StoryText(pd)) = 2
    /\ pd.objects[StoryText(pd)[1]] = FormattedHeading(data[1].text \o data[2].text)
    /\ pd.objects[StoryText(pd)[2]].type = "p"
    /\ ParagraphText(pd, StoryText(pd)[2]) = data[3].text

----------------------------------------------------------------------------
(* Stories with text of every kind: headings of the first and third level, *)
(* body spans, bullets and table cells.                                    *)

\* the number of spans the convert loop handles in SpecStories
MaxStoriesData == 4

F_Heading1 == \E d \in Spans({"heading_1"}, {<<"t">>}, {1}) : Convert(d, MaxStoriesData)

F_Heading3 == \E d \in Spans({"heading_3"}, {<<"t">>}, {1}) : Convert(d, MaxStoriesData)

F_Body == \E d \in Spans({"body"}, {<<"a">>, <<",", " ", "d">>}, {2}) : Convert(d, MaxStoriesData)

F_Bullet == \E d \in Spans({"bullet"}, {<<"*">>}, {1}) : Convert(d, MaxStoriesData)

F_TableHeading == \E d \in Spans({"table_heading"}, {<<"t">>}, {1}) : Convert(d, MaxStoriesData)

F_TableText == \E d \in Spans({"table_text"}, {<<"t">>}, {1}) : Convert(d, MaxStoriesData)

NextStories ==
    \/ ConvertStart
    \/ F_Heading1
    \/ F_Heading3
    \/ F_Body
    \/ F_Bullet
    \/ F_TableHeading
    \/ F_TableText

SpecStories == Init /\ [][NextStories]_vars

\* the story r of the state s, by value: its name and the objects of its text
StoryValue(s, r) ==
    [name |-> s.stories[r].name,
     text |-> [k \in 1..Len(s.stories[r].text) |-> ObjectValue(s, s.stories[r].text[k])]]

\* C33: no step changes the name or the text (objects, runs, segments, rows, entries,
\* heading text) of a story other than the current one: a story is left as it is from
\* the heading_1 or heading_2 that made the next one on.
C33_EarlierStoriesFrozen ==
    [][\A r \in 1..Len(pd.stories) :
          r # pd'.current_story => StoryValue(pd', r) = StoryValue(pd, r)]_vars

\* C33: a body span, a heading_1 and two body spans, the second starting with ", ":
\* the title story keeps its paragraph "a" and the new story holds "a," and "d"
C33_Witness ==
    /\ Len(data) = 4
    /\ [i \in 1..4 |-> data[i].style] = <<"body", "heading_1", "body", "body">>
    /\ data[4].text = <<",", " ", "d">>
    /\ Len(pd.encounters) = 2
    /\ Len(StoryValue(pd, 1).text) = 1
    /\ ParagraphText(pd, pd.stories[1].text[1]) = data[1].text
    /\ Len(StoryValue(pd, 2).text) = 1
    /\ ParagraphText(pd, pd.stories[2].text[1]) = data[3].text \o <<",", "d">>

----------------------------------------------------------------------------
(* The order of the text of a story.                                       *)

\* the paragraphs and lists made so far
ParagraphsAndLists(s) == {o \in 1..Len(s.objects) : s.objects[o].type \in {"p", "list"}}

\* body "a", table_heading, table_text, body "a": the paragraph before the table holds
\* the first body text only
TextAfterTableExample ==
    (/\ Len(data) = 4
     /\ [i \in 1..4 |-> data[i].style] = <<"body", "table_heading", "table_text", "body">>
     /\ pd.err = "none")
    => ParagraphText(pd, StoryText(pd)[1]) = data[1].text

\* C34 as stated: whenever a body or bullet span adds text or an entry to a paragraph
\* or list that exists already, that object is the last of the text of the current
\* story; the text of a span that comes after a table span is never added to a
\* paragraph or list placed before the table (body, table_heading, table_text, body).
C34_Original ==
    /\ []TextAfterTableExample
    /\ [][\A d \in {data'[i] : i \in {Len(data')} \ {0}} :
             (Handles(d) /\ d.style \in BodyStyles \cup {"bullet"}) =>
                 \A o \in ParagraphsAndLists(pd) :
                     ObjectValue(pd', o) # ObjectValue(pd, o) =>
                         /\ StoryText(pd) # <<>>
                         /\ o = StoryText(pd)[Len(StoryText(pd))]]_vars

----------------------------------------------------------------------------
(* The text that reaches the output.                                       *)

\* the runs of an object of the state s
RunsOf(s, o) ==
    LET obj == s.objects[o]
    IN  CASE obj.type = "p" -> {obj.styled_text}
          [] obj.type = "list" -> {obj.items[k] : k \in 1..Len(obj.items)}
          [] obj.type = "table" ->
                UNION {{s.rows[obj.rows[r]][c] : c \in 1..Len(s.rows[obj.rows[r]])} :
                          r \in 1..Len(obj.rows)}
          [] obj.type = "h" -> {}

\* the runs that the text of the story r holds
RunsOfStory(s, r) == UNION {RunsOf(s, s.stories[r].text[k]) : k \in 1..Len(s.stories[r].text)}

\* the segments that the output holds
SegmentsOfOutput(s) ==
    UNION {UNION {{s.styledtexts[st][k] : k \in 1..Len(s.styledtexts[st])} :
                     st \in RunsOfStory(s, s.encounters[i])} : i \in 1..Len(s.encounters)}

\* the open run is a run of the text of the current story
OpenRunReachable ==
    (pd.converting /\ pd.current_styledtext # None) =>
        pd.current_styledtext \in RunsOfStory(pd, pd.current_story)

\* every segment made is in a run of the output
NoSegmentLost == \A g \in 1..Len(pd.segments) : g \in SegmentsOfOutput(pd)

\* C35 as stated: no text is lost: the open run that body text is added to is always a
\* run of the text of the current story, so that the text of every body span handled
\* is in the output, for every sequence of spans (body, box_heading, body, body among
\* them).
C35_Original == OpenRunReachable /\ NoSegmentLost

----------------------------------------------------------------------------
(* The spans whose style has no handler.                                   *)

\* heading_1, a span of a style with no handler, heading_1, on one page: one story
MergeOverUnhandled ==
    (/\ Len(data) = 3
     /\ data[1].style = "heading_1" /\ data[3].style = "heading_1"
     /\ data[2].style \notin HandledStyles
     /\ data[1].location.page = data[3].location.page)
    => /\ Len(pd.encounters) = 2
       /\ LastStory.name = <<"0", "1", " ">> \o data[1].text \o data[3].text

\* body, a span of a style with no handler, body, the second body span not starting a
\* new paragraph: one paragraph whose run holds both
RunOverUnhandled ==
    (/\ Len(data) = 3
     /\ data[1].style \in BodyStyles /\ data[3].style \in BodyStyles
     /\ data[2].style \notin HandledStyles
     /\ ~StartsWith(data[3].text, <<" ">>))
    => /\ Len(StoryText(pd)) = 1
       /\ ParagraphText(pd, StoryText(pd)[1]) = data[1].text \o data[3].text

\* C36: previous_data is set only by a span whose style has a handler; a span of any
\* other style changes nothing of the state of the builder, so that heading_1,
\* unknown, heading_1 on one page make one story and body, unknown, body one run.
C36_UnhandledChangesNothing ==
    /\ []MergeOverUnhandled
    /\ []RunOverUnhandled
    /\ [][\A d \in {data'[i] : i \in {Len(data')} \ {0}} :
             Handles(d) =>
                 /\ d.style \notin HandledStyles => pd' = pd
                 /\ pd'.previous_data # pd.previous_data => d.style \in HandledStyles]_vars

\* C36: heading_1, unknown, heading_1 on one page have made the story "01 tt"
C36_Witness ==
    /\ Len(data) = 3
    /\ [i \in 1..3 |-> data[i].style] = <<"heading_1", "unknown", "heading_1">>
    /\ data[1].location.page = data[3].location.page
    /\ pd.previous_data = data[3]
    /\ Len(pd.encounters) = 2
    /\ LastStory.name = <<"0", "1", " ", "t", "t">>

----------------------------------------------------------------------------
(* The labels of the stories.                                              *)

\* the sections a label can be made of in this model
SectionNumbers == 0..(MaxData + 1)

\* the text starts with a label of one part, "NN ", or of two parts, "NN.MM "
StartsWithShortLabel(name) ==
    \E a \in SectionNumbers :
        \/ StartsWith(name, TwoDigits(a) \o <<" ">>)
        \/ \E b \in SectionNumbers : StartsWith(name, TwoDigits(a) \o <<".">> \o TwoDigits(b) \o <<" ">>)

\* the spans handled so far that are a heading_1 or a heading_2
StoryHeadings == {i \in 1..Len(Seen) : Seen[i].style \in {"heading_1", "heading_2"}}

\* the first of them is a heading_2: the story it makes is "00.01 (text)"
Heading2First ==
    \A i \in StoryHeadings :
        (Seen[i].style = "heading_2" /\ \A j \in StoryHeadings : i <= j) =>
            StartsWith(pd.stories[pd.encounters[2]].name,
                       <<"0", "0", ".", "0", "1", " ">> \o Seen[i].text)

\* C37: no step of the builder increments the third level of the section counter: it
\* is 0 in every state, the name of every story starts with a label of one or two
\* parts, and a heading_2 before any heading_1 is labelled "00.01".
C37_NoThirdLevel ==
    /\ pd.sections[3] = 0
    /\ \A r \in 1..Len(pd.stories) : StartsWithShortLabel(pd.stories[r].name)
    /\ Heading2First

\* C37: heading_2, heading_3 and heading_2 have made the stories "00.01 t" and
\* "00.02 t", the heading_3 counting nothing
C37_Witness ==
    /\ Len(data) = 3
    /\ [i \in 1..3 |-> data[i].style] = <<"heading_2", "heading_3", "heading_2">>
    /\ pd.sections = <<0, 2, 0>>
    /\ pd.stories[2].name = <<"0", "0", ".", "0", "1", " ", "t">>
    /\ pd.stories[3].name = <<"0", "0", ".", "0", "2", " ", "t">>
    /\ Headings(pd) # {}

----------------------------------------------------------------------------
(* The anchor of a list.                                                   *)

\* an anchor is recorded only while a list is open
AnchorOnlyInList == pd.current_bullet_x # NoneX => pd.current_bullet # None

\* C38: in every state a recorded anchor means an open list, so a body span outside
\* a list never reaches the tests that leave a list and never reads the margin origins
\* (which raise when a margin was not found).
C38_AnchorOnlyInList ==
    /\ []AnchorOnlyInList
    /\ [][\A d \in {data'[i] : i \in {Len(data')} \ {0}} :
             (Handles(d) /\ d.style \in BodyStyles /\ pd.current_bullet = None) =>
                 /\ pd.current_bullet_x = NoneX
                 /\ pd'.err # "AttributeError"
                 /\ pd'.current_bullet_x = NoneX]_vars

\* C38: bullet, body in the entry and a body span left of it: the list is closed and no
\* anchor is left
C38_Witness ==
    /\ Len(data) = 3
    /\ [i \in 1..3 |-> data[i].style] = <<"bullet", "body", "body">>
    /\ data[2].origin.x = 2
    /\ data[3].origin.x = 1
    /\ pd.err = "none"
    /\ pd.current_bullet = None
    /\ pd.current_bullet_x = NoneX
    /\ pd.objects[StoryText(pd)[Len(StoryText(pd))]].type = "p"

----------------------------------------------------------------------------
(* The Story of encounter.py on its own: its start and end methods and     *)
(* addText, called in any order.  What its TreeBuilder was given is kept   *)
(* as the sequence of the calls start(tag), end(tag) and data(text).       *)

\* the number of method calls made on the story in SpecStory
MaxStoryCalls == 3

Event(op, arg) == [op |-> op, arg |-> arg]

builder_start(s, tag) == [s EXCEPT !.builder = Append(@, Event("start", tag))]

builder_end(s, tag) == [s EXCEPT !.builder = Append(@, Event("end", tag))]

builder_data(s, text) == [s EXCEPT !.builder = Append(@, Event("data", text))]

\* Story(name): the flags, and the tags its TreeBuilder is given for the id, the name
\* and the start of the text
Story_init(name) ==
    [buildingFrame |-> FALSE, buildingParagraph |-> FALSE, buildingTable |-> FALSE,
     buildingTableRow |-> FALSE, buildingTableData |-> FALSE, buildingList |-> FALSE,
     buildingListEntry |-> FALSE, bold |-> FALSE, italic |-> FALSE,
     builder |-> <<Event("start", "id"), Event("start", "name"), Event("data", name),
                   Event("end", "name"), Event("start", "text")>>]

\* how a call ends: the object after it, and whether it raised
Returned(s) == [obj |-> s, raised |-> FALSE]

Raised(s) == [obj |-> s, raised |-> TRUE]

\* the start methods but for the flag and the tag: raise when the flag is set, else
\* set it and start the tag
start_construct(s, flag, tag) ==
    IF s[flag] THEN Raised(s) ELSE Returned(builder_start([s EXCEPT ![flag] = TRUE], tag))

\* the end methods (endParagraph apart) but for the flag and the tag: raise when the
\* flag is not set, else clear it and end the tag
end_construct(s, flag, tag) ==
    IF ~s[flag] THEN Raised(s) ELSE Returned(builder_end([s EXCEPT ![flag] = FALSE], tag))

startFrame(s) == start_construct(s, "buildingFrame", "frame")

endFrame(s) == end_construct(s, "buildingFrame", "frame")

\* the flags are compared with the arguments; when one differs the open i and b are
\* ended and those asked for are started
addText(s, text, bold, italic) ==
    LET s1 == IF s.italic THEN builder_end([s EXCEPT !.italic = FALSE], "i") ELSE s
        s2 == IF s1.bold THEN builder_end([s1 EXCEPT !.bold = FALSE], "b") ELSE s1
        s3 == IF bold THEN [builder_start(s2, "b") EXCEPT !.bold = TRUE] ELSE s2
        s4 == IF italic THEN [builder_start(s3, "i") EXCEPT !.italic = TRUE] ELSE s3
    IN  Returned(builder_data(IF bold # s.bold \/ italic # s.italic THEN s4 ELSE s, text))

startParagraph(s) == start_construct(s, "buildingParagraph", "p")

\* mutant: endParagraph ends the paragraph whether one is open or not
endParagraph_unguarded(s) ==
    LET s1 == IF s.italic THEN builder_end([s EXCEPT !.italic = FALSE], "i") ELSE s
        s2 == IF s1.bold THEN builder_end([s1 EXCEPT !.bold = FALSE], "b") ELSE s1
    IN  Returned(builder_end([s2 EXCEPT !.buildingParagraph = FALSE], "p"))

\* the open i and b are ended first, then the flag is tested
endParagraph(s) ==
    LET s1 == IF s.italic THEN builder_end([s EXCEPT !.italic = FALSE], "i") ELSE s
        s2 == IF s1.bold THEN builder_end([s1 EXCEPT !.bold = FALSE], "b") ELSE s1
    IN  IF ~s2.buildingParagraph
        THEN Raised(s2)
        ELSE Returned(builder_end([s2 EXCEPT !.buildingParagraph = FALSE], "p"))

startTable(s) == start_construct(s, "buildingTable", "table")

endTable(s) == end_construct(s, "buildingTable", "table")

startTableRow(s) == start_construct(s, "buildingTableRow", "tr")

endTableRow(s) == end_construct(s, "buildingTableRow", "tr")

startTableData(s) == start_construct(s, "buildingTableData", "td")

endTableData(s) == end_construct(s, "buildingTableData", "td")

startList(s) == start_construct(s, "buildingList", "list")

endList(s) == end_construct(s, "buildingList", "list")

startListEntry(s) == start_construct(s, "buildingListEntry", "li")

endListEntry(s) == end_construct(s, "buildingListEntry", "li")

\* a Story has been made and none of its methods called
InitStory ==
    /\ pd = EmptyProcess
    /\ data = <<>>
    /\ calls = <<>>
    /\ storyobj = Story_init(<<"t">>)

\* a method is called on the story; a caller that catches what it raises goes on
\* with the same object
StoryCall(method, outcome) ==
    /\ Len(calls) < MaxStoryCalls
    /\ storyobj' = outcome.obj
    /\ calls' = Append(calls, [method |-> method, raised |-> outcome.raised])
    /\ UNCHANGED <<pd, data>>

StartFrame == StoryCall("startFrame", startFrame(storyobj))

EndFrame == StoryCall("endFrame", endFrame(storyobj))

AddText == \E bold, italic \in BOOLEAN : StoryCall("addText", addText(storyobj, <<"x">>, bold, italic))

StartParagraph == StoryCall("startParagraph", startParagraph(storyobj))

EndParagraph == StoryCall("endParagraph", endParagraph(storyobj))

StartTable == StoryCall("startTable", startTable(storyobj))

EndTable == StoryCall("endTable", endTable(storyobj))

StartTableRow == StoryCall("startTableRow", startTableRow(storyobj))

EndTableRow == StoryCall("endTableRow", endTableRow(storyobj))

StartTableData == StoryCall("startTableData", startTableData(storyobj))

EndTableData == StoryCall("endTableData", endTableData(storyobj))

StartList == StoryCall("startList", startList(storyobj))

EndList == StoryCall("endList", endList(storyobj))

StartListEntry == StoryCall("startListEntry", startListEntry(storyobj))

EndListEntry == StoryCall("endListEntry", endListEntry(storyobj))

NextStory ==
    \/ StartFrame
    \/ EndFrame
    \/ AddText
    \/ StartParagraph
    \/ EndParagraph
    \/ StartTable
    \/ EndTable
    \/ StartTableRow
    \/ EndTableRow
    \/ StartTableData
    \/ EndTableData
    \/ StartList
    \/ EndList
    \/ StartListEntry
    \/ EndListEntry

SpecStory == InitStory /\ [][NextStory]_vars

\* the constructs of a story: the flag, the start method and the end method of each
Constructs ==
    {[flag |-> "buildingFrame", start |-> "startFrame", end |-> "endFrame"],
     [flag |-> "buildingParagraph", start |-> "startParagraph", end |-> "endParagraph"],
     [flag |-> "buildingTable", start |-> "startTable", end |-> "endTable"],
     [flag |-> "buildingTableRow", start |-> "startTableRow", end |-> "endTableRow"],
     [flag |-> "buildingTableData", start |-> "startTableData", end |-> "endTableData"],
     [flag |-> "buildingList", start |-> "startList", end |-> "endList"],
     [flag |-> "buildingListEntry", start |-> "startListEntry", end |-> "endListEntry"]}

\* the call the step makes
LastCall == calls'[Len(calls')]

\* the methods of the calls of construct c that returned, in order
ReturnedCalls(c) ==
    SelectSeq([i \in 1..Len(calls) |-> IF calls[i].raised THEN "" ELSE calls[i].method],
              LAMBDA m : m \in {c.start, c.end})

\* the calls that returned are a start, an end, a start, ...
Alternate(c) ==
    \A i \in 1..Len(ReturnedCalls(c)) :
        ReturnedCalls(c)[i] = IF i % 2 = 1 THEN c.start ELSE c.end

\* C39: for each of frame, paragraph, table, table row, table data, list and list
\* entry, a start call raises exactly when the construct is open and an end call
\* exactly when it is not; a start that returns opens it and an end that returns
\* closes it.  Hence the start and end calls of one construct that return alternate,
\* the first being a start.
C39_StartEndGuards ==
    /\ [](\A c \in Constructs : Alternate(c))
    /\ [][calls' # calls =>
             \A c \in Constructs :
                 /\ LastCall.method = c.start =>
                       /\ LastCall.raised <=> storyobj[c.flag]
                       /\ ~LastCall.raised => storyobj'[c.flag]
                 /\ LastCall.method = c.end =>
                       /\ LastCall.raised <=> ~storyobj[c.flag]
                       /\ ~LastCall.raised => ~storyobj'[c.flag]]_vars

\* C39: a paragraph has been started, a second start has raised, and the end has
\* returned
C39_Witness ==
    /\ calls = <<[method |-> "startParagraph", raised |-> FALSE],
                 [method |-> "startParagraph", raised |-> TRUE],
                 [method |-> "endParagraph", raised |-> FALSE]>>
    /\ ~storyobj.buildingParagraph

\* C40 as stated: a start or end call that raises leaves the story as it was: its
\* building flags, bold and italic, and what its TreeBuilder was given.
C40_Original == [][(calls' # calls /\ LastCall.raised) => storyobj' = storyobj]_vars

\* C40, endParagraph apart: the other thirteen methods raise before they change
\* anything
C40_ButEndParagraph ==
    [][(calls' # calls /\ LastCall.raised /\ LastCall.method # "endParagraph")
          => storyobj' = storyobj]_vars

\* addText with bold set, then endParagraph with no paragraph open: the call has
\* raised, and bold is cleared and the b ended all the same
C40_EndParagraphWitness ==
    /\ Len(calls) = 2
    /\ calls[1].method = "addText"
    /\ calls[2] = [method |-> "endParagraph", raised |-> TRUE]
    /\ ~storyobj.bold
    /\ storyobj.builder[Len(storyobj.builder)] = Event("end", "b")

====
